---- MODULE Spec2Model ----
(***************************************************************************)
(* The .wrcdata binary log of the WRC Coach device: the reader             *)
(* (read_wrcdata.py, WRCDataReader), the diagnostic check_file.py, the V1  *)
(* test writer of test_binary_format.py, and the stroke analysis of        *)
(* visualize_wrcdata.py (StrokeAnalyzer).                                  *)
(*                                                                         *)
(* A buffer is a sequence of bytes 0..255; byte offset o of the code is   *)
(* element o+1 of the sequence.  A Python float is its IEEE-754 double:    *)
(* the record [s, e, hi, lo] of sign bit, 11-bit biased exponent and the   *)
(* 52-bit fraction split in two 26-bit halves.  A str is the sequence of   *)
(* its character codes.                                                    *)
(***************************************************************************)
EXTENDS Integers, Sequences, FiniteSets, TLC

VARIABLES
    program,              \* the script that runs
    pc,                   \* its position
    data,                 \* the bytes of the file (data = f.read())
    offset,               \* read(): offset
    magic,                \* read(): magic
    version,              \* read(): version (0 while unassigned)
    header,               \* read(): header
    imu_samples,          \* read(): imu_samples
    gps_samples,          \* read(): gps_samples
    calibration_samples,  \* read(): calibration_samples
    result,               \* what read() returned
    error,                \* the exception that ended the program
    original,             \* the samples handed to write_binary_test_file
    checked,              \* check_file(): its other locals
    analyzer,             \* the StrokeAnalyzer: self.imu, self.gps, self.fs
    acceleration,         \* detect_strokes(): acceleration
    filtered,             \* detect_strokes(): filtered
    catches,              \* the catch indices found or handed in
    finishes,             \* the finish indices found or handed in
    stroke_rates,         \* calculate_stroke_metrics(): stroke_rates
    drive_ratios,         \* calculate_stroke_metrics(): drive_ratios
    metrics,              \* what calculate_stroke_metrics() returned
    frames                \* read_as_dataframes(): the time_s columns of its tables

vars == <<program, pc, data, offset, magic, version, header, imu_samples, gps_samples,
          calibration_samples, result, error, original, checked, analyzer,
          acceleration, filtered, catches, finishes, stroke_rates, drive_ratios,
          metrics, frames>>

\* the state of the file programs and the state of the stroke analysis
fileVars == <<data, offset, magic, version, header, imu_samples, gps_samples,
              calibration_samples, result, original, checked>>
analysisVars == <<analyzer, acceleration, filtered, catches, finishes, stroke_rates,
                  drive_ratios, metrics, frames>>

None == [none |-> TRUE]

----------------------------------------------------------------------------
(* Layout constants of WRCDataReader *)

HEADER_SIZE_V1 == 64
HEADER_SIZE_V2 == 128
IMU_SAMPLE_SIZE == 32
GPS_SAMPLE_SIZE == 36
CALIBRATION_SIZE == 64

\* 'WRC_COACH_V' as character codes, and the three tags
TagStem == <<87, 82, 67, 95, 67, 79, 65, 67, 72, 95, 86>>
MAGIC_V1 == TagStem \o <<49>>
MAGIC_V2 == TagStem \o <<50>>
MAGIC_V3 == TagStem \o <<51>>

----------------------------------------------------------------------------
(* bytes and str *)

ByteAt(buf, o) == IF o >= 0 /\ o < Len(buf) THEN buf[o + 1] ELSE 0

\* buf[a:b] of Python, 0 <= a <= b
Slice(buf, a, b) ==
    LET hi == IF b < Len(buf) THEN b ELSE Len(buf)
    IN  IF a >= hi THEN <<>> ELSE SubSeq(buf, a + 1, hi)

RECURSIVE rstrip0(_)
rstrip0(buf) ==
    IF buf = <<>> THEN <<>>
    ELSE IF buf[Len(buf)] = 0 THEN rstrip0(SubSeq(buf, 1, Len(buf) - 1))
    ELSE buf

\* bytes.decode('ascii') succeeds exactly on bytes below 128
IsAscii(buf) == \A i \in 1..Len(buf) : buf[i] < 128

startswith(str, prefix) ==
    /\ Len(str) >= Len(prefix)
    /\ SubSeq(str, 1, Len(prefix)) = prefix

----------------------------------------------------------------------------
(* struct: unpack_from(fmt, buffer, offset) needs calcsize(fmt) bytes at   *)
(* offset, else it raises struct.error                                     *)

CanUnpackLoose(buf, o, size) == o < Len(buf)

CanUnpack(buf, o, size) == o >= 0 /\ o + size <= Len(buf)

\* a byte read as a truth value: 1 for every nonzero byte
unpack_nonzero(buf, o) == IF ByteAt(buf, o) # 0 THEN 1 ELSE 0

unpack_B(buf, o) == ByteAt(buf, o)

\* '<I': an unsigned 32-bit integer, kept as its two 16-bit halves
\* (the value is hi * 65536 + lo)
unpack_I(buf, o) ==
    [hi |-> ByteAt(buf, o + 2) + 256 * ByteAt(buf, o + 3),
     lo |-> ByteAt(buf, o) + 256 * ByteAt(buf, o + 1)]

\* the int n >= 0 as such an integer, and k < u for an int k below 65536
U32(n) == [hi |-> n \div 65536, lo |-> n % 65536]
Below(k, u) == u.hi > 0 \/ k < u.lo

\* '<d': bytes 0..7 little-endian, sign in the top bit of byte 7
unpack_d(buf, o) ==
    LET b(i) == ByteAt(buf, o + i)
    IN  [s  |-> b(7) \div 128,
         e  |-> (b(7) % 128) * 16 + (b(6) \div 16),
         hi |-> (b(6) % 16) * 4194304 + b(5) * 16384 + b(4) * 64 + (b(3) \div 4),
         lo |-> (b(3) % 4) * 16777216 + b(2) * 65536 + b(1) * 256 + b(0)]

\* floor(log2(n)), n >= 1
Log2(n) == CHOOSE p \in 0..30 : 2^p <= n /\ n < 2^(p + 1)

\* a binary32 of sign s and 31 magnitude bits m, widened to the double of
\* the same value (exact)
Widen(s, m) ==
    LET E8 == m \div 8388608
        fr == m % 8388608
    IN  IF E8 = 255 THEN [s |-> s, e |-> 2047, hi |-> fr * 8, lo |-> 0]
        ELSE IF E8 = 0 /\ fr = 0 THEN [s |-> s, e |-> 0, hi |-> 0, lo |-> 0]
        ELSE IF E8 = 0
             THEN LET p == Log2(fr)
                  IN  [s |-> s, e |-> 874 + p,
                       hi |-> (fr - 2^p) * 2^(26 - p), lo |-> 0]
        ELSE [s |-> s, e |-> E8 + 896, hi |-> fr * 8, lo |-> 0]

\* '<f': bytes 0..3 little-endian, returned as a Python float
unpack_f(buf, o) ==
    LET b(i) == ByteAt(buf, o + i)
    IN  Widen(b(3) \div 128,
              (b(3) % 128) * 16777216 + b(2) * 65536 + b(1) * 256 + b(0))

pack_B(n) == <<n % 256>>

pack_I(n) ==
    <<n % 256, (n \div 256) % 256, (n \div 65536) % 256, (n \div 16777216) % 256>>

pack_d(x) ==
    <<x.lo % 256,
      (x.lo \div 256) % 256,
      (x.lo \div 65536) % 256,
      (x.hi % 64) * 4 + (x.lo \div 16777216),
      (x.hi \div 64) % 256,
      (x.hi \div 16384) % 256,
      (x.e % 16) * 16 + (x.hi \div 4194304),
      x.s * 128 + (x.e \div 16)>>

\* the 53-bit significand H * 2^26 + L shifted right by n >= 29 bits,
\* rounded to nearest, ties to even
RoundShift(H, L, n) ==
    IF n >= 54 THEN 0
    ELSE LET k    == n - 26
             q    == H \div 2^k
             rH   == H % 2^k
             half == 2^(k - 1)
             up   == \/ rH > half
                     \/ rH = half /\ L > 0
                     \/ rH = half /\ L = 0 /\ q % 2 = 1
         IN  q + (IF up THEN 1 ELSE 0)

\* the magnitude bits of (float)x for a double x; 2139095040 (the bits of
\* inf) or more from a finite x is the overflow pack() raises on
FloatBits(x) ==
    IF x.e = 2047
    THEN IF x.hi = 0 /\ x.lo = 0 THEN 2139095040
         ELSE 2139095040 + 4194304 + ((x.hi \div 8) % 4194304)
    ELSE IF x.e = 0 THEN 0
    ELSE IF x.e > 1150 THEN 2139095040
    ELSE IF x.e >= 897
         THEN (x.e - 897) * 8388608 + RoundShift(67108864 + x.hi, x.lo, 29)
    ELSE RoundShift(67108864 + x.hi, x.lo, 29 + (897 - x.e))

IsFinite(x) == x.e < 2047

packOverflows(x) == IsFinite(x) /\ FloatBits(x) >= 2139095040

pack_f(x) ==
    LET m == FloatBits(x)
    IN  <<m % 256, (m \div 256) % 256, (m \div 65536) % 256,
          x.s * 128 + (m \div 16777216)>>

----------------------------------------------------------------------------
(* WRCDataReader: the decoders of one section each *)

\* where _read_header unpacks session_start
SessionStartOffsetV1Only(off, ver) == off + 24

SessionStartOffset(off, ver) == off + 16 + 8 + (IF ver = 2 THEN 4 + 1 ELSE 0)

read_header_unchecked(buf, off, ver) == TRUE

\* every unpack_from of _read_header finds its bytes
read_header_ok(buf, off, ver) ==
    LET t == SessionStartOffset(off, ver)
    IN  /\ CanUnpack(buf, off + 16, 8)
        /\ ver = 2 => CanUnpack(buf, off + 24, 4) /\ CanUnpack(buf, off + 28, 1)
        /\ CanUnpack(buf, t, 8)
        /\ CanUnpack(buf, t + 8, 2)
        /\ CanUnpack(buf, t + 10, 8)

read_header(buf, off, ver) ==
    LET t == SessionStartOffset(off, ver)
    IN  [magic             |-> rstrip0(Slice(buf, off, off + 16)),
         version           |-> ver,
         imu_count         |-> unpack_I(buf, off + 16),
         gps_count         |-> unpack_I(buf, off + 20),
         session_start     |-> unpack_d(buf, t),
         phone_orientation |-> IF unpack_B(buf, t + 8) = 1 THEN "coxswain" ELSE "rower",
         demo_mode         |-> unpack_B(buf, t + 9) = 1,
         catch_threshold   |-> unpack_f(buf, t + 10),
         finish_threshold  |-> unpack_f(buf, t + 14),
         calibration_count |-> IF ver = 2 THEN unpack_I(buf, off + 24) ELSE U32(0),
         has_calibration   |-> IF ver = 2 THEN unpack_B(buf, off + 28) = 1 ELSE FALSE,
         calibration       |-> None]

\* the last field of the block, the f64 timestamp, starts 28 bytes in
read_calibration_ok(buf, off) ==
    /\ \A i \in 0..6 : CanUnpack(buf, off + 4 * i, 4)
    /\ CanUnpack(buf, off + 28, 8)

read_calibration(buf, off) ==
    [pitch_offset      |-> unpack_f(buf, off),
     roll_offset       |-> unpack_f(buf, off + 4),
     yaw_offset        |-> unpack_f(buf, off + 8),
     lateral_offset    |-> unpack_f(buf, off + 12),
     gravity_magnitude |-> unpack_f(buf, off + 16),
     samples           |-> unpack_I(buf, off + 20),
     variance          |-> unpack_f(buf, off + 24),
     timestamp         |-> unpack_d(buf, off + 28)]

\* '<dffffff'
read_imu_sample_ok(buf, off) == CanUnpack(buf, off, 32)

read_imu_sample(buf, off) ==
    [timestamp |-> unpack_d(buf, off),
     ax |-> unpack_f(buf, off + 8),
     ay |-> unpack_f(buf, off + 12),
     az |-> unpack_f(buf, off + 16),
     gx |-> unpack_f(buf, off + 20),
     gy |-> unpack_f(buf, off + 24),
     gz |-> unpack_f(buf, off + 28)]

\* '<dddfff'
read_gps_sample_ok(buf, off) == CanUnpack(buf, off, 36)

read_gps_sample_swapped(buf, off) ==
    [timestamp |-> unpack_d(buf, off),
     lat       |-> unpack_d(buf, off + 16),
     lon       |-> unpack_d(buf, off + 8),
     speed     |-> unpack_f(buf, off + 24),
     heading   |-> unpack_f(buf, off + 28),
     accuracy  |-> unpack_f(buf, off + 32)]

read_gps_sample(buf, off) ==
    [timestamp |-> unpack_d(buf, off),
     lat       |-> unpack_d(buf, off + 8),
     lon       |-> unpack_d(buf, off + 16),
     speed     |-> unpack_f(buf, off + 24),
     heading   |-> unpack_f(buf, off + 28),
     accuracy  |-> unpack_f(buf, off + 32)]

----------------------------------------------------------------------------
(* WRCDataReader.read, one action per section *)

Raise(type, arg) ==
    /\ pc' = "raised"
    /\ error' = [type |-> type, arg |-> arg]

\* 'Invalid file format: '
InvalidFileFormat ==
    <<73, 110, 118, 97, 108, 105, 100, 32, 102, 105, 108, 101, 32,
      102, 111, 114, 109, 97, 116, 58, 32>>

\* the message of the ValueError of read()
FormatMessageBare(tag) == InvalidFileFormat

FormatMessage(tag) == InvalidFileFormat \o tag

startswithExact(str, prefix) == str = prefix

\* str.startswith as read() and check_file() use it on the tag
TagStartsWith(str, prefix) == startswith(str, prefix)

\* the version read() selects for a tag, 0 when it raises
ReadVersion(tag) ==
    IF TagStartsWith(tag, MAGIC_V2) THEN 2
    ELSE IF TagStartsWith(tag, MAGIC_V1) THEN 1
    ELSE 0

ReadDetect ==
    /\ pc = "read"
    /\ LET raw == rstrip0(Slice(data, 0, 16))
       IN  IF ~IsAscii(raw)
           THEN /\ Raise("UnicodeDecodeError", <<>>)
                /\ UNCHANGED <<magic, version>>
           ELSE /\ magic' = raw
                /\ version' = ReadVersion(raw)
                /\ IF ReadVersion(raw) = 0
                   THEN Raise("ValueError", FormatMessage(raw))
                   ELSE pc' = "header" /\ UNCHANGED error
    /\ offset' = 0
    /\ UNCHANGED <<program, data, header, imu_samples, gps_samples, calibration_samples,
                   result, original, checked>>
    /\ UNCHANGED analysisVars

ReadHeader ==
    /\ pc = "header"
    /\ IF read_header_ok(data, offset, version)
       THEN /\ header' = read_header(data, offset, version)
            /\ offset' = offset + (IF version = 2 THEN HEADER_SIZE_V2 ELSE HEADER_SIZE_V1)
            /\ pc' = "calibration"
            /\ UNCHANGED error
       ELSE /\ Raise("struct.error", <<>>)
            /\ UNCHANGED <<header, offset>>
    /\ UNCHANGED <<program, data, magic, version, imu_samples, gps_samples,
                   calibration_samples, result, original, checked>>
    /\ UNCHANGED analysisVars

HasCalibrationBlockAlways(ver, h) == ver = 2

\* the condition under which read() decodes the calibration block
HasCalibrationBlock(ver, h) == ver = 2 /\ h.has_calibration

ReadCalibration ==
    /\ pc = "calibration"
    /\ IF HasCalibrationBlock(version, header)
       THEN IF read_calibration_ok(data, offset)
            THEN /\ header' = [header EXCEPT !.calibration = read_calibration(data, offset)]
                 /\ offset' = offset + CALIBRATION_SIZE
                 /\ pc' = "imu"
                 /\ imu_samples' = <<>>
                 /\ UNCHANGED error
            ELSE /\ Raise("struct.error", <<>>)
                 /\ UNCHANGED <<header, offset, imu_samples>>
       ELSE /\ pc' = "imu"
            /\ imu_samples' = <<>>
            /\ UNCHANGED <<header, offset, error>>
    /\ UNCHANGED <<program, data, magic, version, gps_samples, calibration_samples,
                   result, original, checked>>
    /\ UNCHANGED analysisVars

AfterImuSampleWrong(off) == off + GPS_SAMPLE_SIZE

\* offset += self.IMU_SAMPLE_SIZE after a motion record
AfterImuSample(off) == off + IMU_SAMPLE_SIZE

ImuRangeWrong(h) == h.gps_count

\* range(header.imu_count) and its fellows
ImuRange(h) == h.imu_count

GpsRange(h) == h.gps_count

CalibrationRange(ver, h) == IF ver = 2 THEN h.calibration_count ELSE U32(0)

ReadImuSamples ==
    /\ pc = "imu"
    /\ IF Below(Len(imu_samples), ImuRange(header))
       THEN IF read_imu_sample_ok(data, offset)
            THEN /\ imu_samples' = Append(imu_samples, read_imu_sample(data, offset))
                 /\ offset' = AfterImuSample(offset)
                 /\ UNCHANGED <<pc, error, gps_samples>>
            ELSE /\ Raise("struct.error", <<>>)
                 /\ UNCHANGED <<imu_samples, offset, gps_samples>>
       ELSE /\ pc' = "gps"
            /\ gps_samples' = <<>>
            /\ UNCHANGED <<imu_samples, offset, error>>
    /\ UNCHANGED <<program, data, magic, version, header, calibration_samples, result, original, checked>>
    /\ UNCHANGED analysisVars

ReadGpsSamples ==
    /\ pc = "gps"
    /\ IF Below(Len(gps_samples), GpsRange(header))
       THEN IF read_gps_sample_ok(data, offset)
            THEN /\ gps_samples' = Append(gps_samples, read_gps_sample(data, offset))
                 /\ offset' = offset + GPS_SAMPLE_SIZE
                 /\ UNCHANGED <<pc, error, calibration_samples>>
            ELSE /\ Raise("struct.error", <<>>)
                 /\ UNCHANGED <<gps_samples, offset, calibration_samples>>
       ELSE /\ pc' = "calibration_samples"
            /\ calibration_samples' = <<>>
            /\ UNCHANGED <<gps_samples, offset, error>>
    /\ UNCHANGED <<program, data, magic, version, header, imu_samples, result, original, checked>>
    /\ UNCHANGED analysisVars

ReadCalibrationSamples ==
    /\ pc = "calibration_samples"
    /\ IF Below(Len(calibration_samples), CalibrationRange(version, header))
       THEN IF read_imu_sample_ok(data, offset)
            THEN /\ calibration_samples' =
                        Append(calibration_samples, read_imu_sample(data, offset))
                 /\ offset' = offset + IMU_SAMPLE_SIZE
                 /\ UNCHANGED <<pc, error, result>>
            ELSE /\ Raise("struct.error", <<>>)
                 /\ UNCHANGED <<calibration_samples, offset, result>>
       ELSE /\ pc' = "returned"
            /\ result' = [header              |-> header,
                          imu_samples         |-> imu_samples,
                          gps_samples         |-> gps_samples,
                          calibration_samples |-> calibration_samples]
            /\ UNCHANGED <<calibration_samples, offset, error>>
    /\ UNCHANGED <<program, data, magic, version, header, imu_samples, gps_samples, original, checked>>
    /\ UNCHANGED analysisVars

----------------------------------------------------------------------------
(* test_binary_format.py: write_binary_test_file *)

Double(s, e, hi, lo) == [s |-> s, e |-> e, hi |-> hi, lo |-> lo]

\* the literals of the writer: 1697200000000.0, 0.6 and -0.3
SessionStartLiteral == Double(0, 1063, 36480003, 12582912)
CatchLiteral == Double(0, 1022, 13421772, 53687091)
FinishLiteral == Double(1, 1021, 13421772, 53687091)

Zeros(n) == [i \in 1..n |-> 0]

\* MAGIC = b'WRC_COACH_V1\0\0\0\0'
MAGIC == MAGIC_V1 \o Zeros(4)

ImuFields(s) ==
    <<[fmt |-> "d", x |-> s.timestamp], [fmt |-> "f", x |-> s.ax],
      [fmt |-> "f", x |-> s.ay], [fmt |-> "f", x |-> s.az],
      [fmt |-> "f", x |-> s.gx], [fmt |-> "f", x |-> s.gy],
      [fmt |-> "f", x |-> s.gz]>>

GpsFields(s) ==
    <<[fmt |-> "d", x |-> s.timestamp], [fmt |-> "d", x |-> s.lat],
      [fmt |-> "d", x |-> s.lon], [fmt |-> "f", x |-> s.speed],
      [fmt |-> "f", x |-> s.heading], [fmt |-> "f", x |-> s.accuracy]>>

\* the fields of all samples, in the order of the two for loops
RECURSIVE AllImuFields(_)
AllImuFields(samples) ==
    IF samples = <<>> THEN <<>>
    ELSE ImuFields(Head(samples)) \o AllImuFields(Tail(samples))

RECURSIVE AllGpsFields(_)
AllGpsFields(samples) ==
    IF samples = <<>> THEN <<>>
    ELSE GpsFields(Head(samples)) \o AllGpsFields(Tail(samples))

\* f.write(struct.pack(...)) field after field; the first pack that
\* overflows raises and leaves what was written before it
RECURSIVE WriteFields(_)
WriteFields(fields) ==
    IF fields = <<>> THEN [bytes |-> <<>>, ok |-> TRUE]
    ELSE LET f == Head(fields)
         IN  IF f.fmt = "f" /\ packOverflows(f.x)
             THEN [bytes |-> <<>>, ok |-> FALSE]
             ELSE LET rest == WriteFields(Tail(fields))
                  IN  [bytes |-> (IF f.fmt = "d" THEN pack_d(f.x) ELSE pack_f(f.x))
                                    \o rest.bytes,
                       ok    |-> rest.ok]

WriteHeader(imu, gps) ==
    MAGIC \o pack_I(Len(imu)) \o pack_I(Len(gps)) \o pack_d(SessionStartLiteral)
        \o pack_B(0) \o pack_B(1) \o pack_f(CatchLiteral) \o pack_f(FinishLiteral)
        \o Zeros(22)

write_binary_test_file ==
    /\ pc = "write"
    /\ LET w == WriteFields(AllImuFields(original.imu_samples)
                                \o AllGpsFields(original.gps_samples))
       IN  /\ data' = WriteHeader(original.imu_samples, original.gps_samples) \o w.bytes
           /\ IF w.ok THEN pc' = "read" /\ UNCHANGED error
                      ELSE Raise("OverflowError", <<>>)
    /\ UNCHANGED <<program, offset, magic, version, header, imu_samples,
                   gps_samples, calibration_samples, result, original, checked>>
    /\ UNCHANGED analysisVars

\* the tuple read() and read_as_numpy() return
AsTuple(r) == <<r.header, r.imu_samples, r.gps_samples, r.calibration_samples>>

\* 'header, read_imu, read_gps = reader.read()': the unpacking into three
\* names raises ValueError unless the tuple has three components; main()
\* catches it and reports the failed test
verify_round_trip ==
    /\ program = "test_binary_format"
    /\ pc = "returned"
    /\ IF Len(AsTuple(result)) = 3
       THEN pc' = "verified" /\ UNCHANGED error
       ELSE pc' = "failed" /\ error' = [type |-> "ValueError", arg |-> <<>>]
    /\ UNCHANGED <<program, data, offset, magic, version, header, imu_samples,
                   gps_samples, calibration_samples, result, original, checked>>
    /\ UNCHANGED analysisVars

----------------------------------------------------------------------------
(* check_file.py: check_file *)

IMU_SAMPLE_SIZE_V3 == 44
SAMPLES_TO_CHECK == 100

CheckVersionNoV3(tag) ==
    IF TagStartsWith(tag, MAGIC_V2) THEN 2
    ELSE IF TagStartsWith(tag, MAGIC_V1) THEN 1
    ELSE 0

\* the version check_file() selects for a tag, 0 when it reports an unknown
\* format and returns
CheckVersion(tag) ==
    IF TagStartsWith(tag, MAGIC_V3) THEN 3
    ELSE IF TagStartsWith(tag, MAGIC_V2) THEN 2
    ELSE IF TagStartsWith(tag, MAGIC_V1) THEN 1
    ELSE 0

CheckFileDetect ==
    /\ pc = "check_file"
    /\ LET raw == rstrip0(Slice(data, 0, 16))
       IN  IF ~IsAscii(raw)
           THEN /\ Raise("UnicodeDecodeError", <<>>)
                /\ UNCHANGED <<magic, version>>
           ELSE /\ magic' = raw
                /\ version' = CheckVersion(raw)
                /\ pc' = IF CheckVersion(raw) = 0 THEN "returned" ELSE "check_header"
                /\ UNCHANGED error
    /\ UNCHANGED <<program, data, offset, header, imu_samples, gps_samples,
                   calibration_samples, result, original, checked>>
    /\ UNCHANGED analysisVars

\* where check_file unpacks session_start
CheckSessionOffset(ver) == 16 + 8 + (IF ver >= 2 THEN 4 + 1 ELSE 0)

check_header_ok(buf, ver) ==
    LET t == CheckSessionOffset(ver)
    IN  /\ CanUnpack(buf, 16, 8)
        /\ ver >= 2 => CanUnpack(buf, 24, 4) /\ CanUnpack(buf, 28, 1)
        /\ CanUnpack(buf, t, 8)
        /\ CanUnpack(buf, t + 8, 2)
        /\ CanUnpack(buf, t + 10, 8)

\* the first argument whatever the count
First(a, u) == a

\* min(100, imu_count)
Min(a, u) == IF Below(a, u) THEN a ELSE u.lo

\* lines 33-70: the header fields, then for V3 the skip of the calibration
\* block and the number of samples to look at
CheckFileHeader ==
    /\ pc = "check_header"
    /\ IF check_header_ok(data, version)
       THEN LET t   == CheckSessionOffset(version)
                n   == unpack_I(data, 16)
                cal == IF version >= 2 THEN unpack_B(data, 28) = 1 ELSE FALSE
            IN  /\ checked' =
                      [imu_count         |-> n,
                       gps_count         |-> unpack_I(data, 20),
                       calibration_count |-> IF version >= 2
                                             THEN [value |-> unpack_I(data, 24)]
                                             ELSE None,
                       has_calibration   |-> IF version >= 2
                                             THEN [value |-> cal]
                                             ELSE None,
                       session_start     |-> unpack_d(data, t),
                       phone_orientation |-> IF unpack_B(data, t + 8) = 1
                                             THEN "coxswain" ELSE "rower",
                       demo_mode         |-> unpack_B(data, t + 9) = 1,
                       catch_thresh      |-> unpack_f(data, t + 10),
                       finish_thresh     |-> unpack_f(data, t + 14),
                       samples_with_orientation |-> 0,
                       samples_checked   |-> IF version = 3
                                             THEN Min(SAMPLES_TO_CHECK, n) ELSE 0,
                       i                 |-> 0,
                       estimated         |-> None]
                /\ offset' = IF version = 3 /\ cal THEN t + 10 + 64 ELSE t + 10
                /\ pc' = IF version = 3 THEN "check_samples" ELSE "returned"
                /\ UNCHANGED error
       ELSE /\ Raise("struct.error", <<>>)
            /\ UNCHANGED <<checked, offset>>
    /\ UNCHANGED <<program, data, magic, version, header, imu_samples, gps_samples,
                   calibration_samples, result, original>>
    /\ UNCHANGED analysisVars

isnan(x) == x.e = 2047 /\ (x.hi # 0 \/ x.lo # 0)

\* '<dfffffffff': the orientation channels mx, my, mz are the last three
HasOrientation(buf, off) ==
    ~(isnan(unpack_f(buf, off + 32)) /\ isnan(unpack_f(buf, off + 36))
        /\ isnan(unpack_f(buf, off + 40)))

\* lines 72-89: one pass of the loop, or the summary after it
CheckFileSamples ==
    /\ pc = "check_samples"
    /\ IF checked.i < checked.samples_checked
       THEN IF CanUnpack(data, offset, 44)
            THEN /\ checked' =
                      [checked EXCEPT
                         !.i = @ + 1,
                         !.samples_with_orientation =
                             IF HasOrientation(data, offset) THEN @ + 1 ELSE @]
                 /\ offset' = offset + IMU_SAMPLE_SIZE_V3
                 /\ UNCHANGED <<pc, error>>
            ELSE /\ Raise("struct.error", <<>>)
                 /\ UNCHANGED <<checked, offset>>
       ELSE /\ checked' =
                 [checked EXCEPT !.estimated =
                     IF checked.samples_with_orientation > 0
                     THEN [value |-> (checked.samples_with_orientation
                                        * checked.imu_count.lo)
                                      \div checked.samples_checked]
                     ELSE None]
            /\ pc' = "returned"
            /\ UNCHANGED <<offset, error>>
    /\ UNCHANGED <<program, data, magic, version, header, imu_samples, gps_samples,
                   calibration_samples, result, original>>
    /\ UNCHANGED analysisVars

----------------------------------------------------------------------------
(* Natural numbers of any size: the sequence of their base-8192 digits,   *)
(* lowest first, no leading zero digit (so 0 is the empty sequence)       *)
RECURSIVE BigNorm(_)
BigNorm(a) ==
    IF a = <<>> THEN a
    ELSE IF a[Len(a)] = 0 THEN BigNorm(SubSeq(a, 1, Len(a) - 1))
    ELSE a

BigLimb(a, i) == IF i >= 1 /\ i <= Len(a) THEN a[i] ELSE 0

BigLess(a, b) ==
    IF Len(a) # Len(b) THEN Len(a) < Len(b)
    ELSE \E i \in 1..Len(a) :
             /\ a[i] < b[i]
             /\ \A j \in (i + 1)..Len(a) : a[j] = b[j]

\* a * k + c for small k and c
RECURSIVE BigMulAddFrom(_, _, _, _)
BigMulAddFrom(a, k, c, i) ==
    IF i > Len(a)
    THEN IF c = 0 THEN <<>> ELSE <<c % 8192>> \o BigMulAddFrom(a, k, c \div 8192, i)
    ELSE LET v == a[i] * k + c
         IN  <<v % 8192>> \o BigMulAddFrom(a, k, v \div 8192, i + 1)
BigMulAdd(a, k, c) == BigNorm(BigMulAddFrom(a, k, c, 1))

RECURSIVE BigAddFrom(_, _, _, _)
BigAddFrom(a, b, c, i) ==
    IF i > Len(a) /\ i > Len(b)
    THEN IF c = 0 THEN <<>> ELSE <<c>>
    ELSE LET v == BigLimb(a, i) + BigLimb(b, i) + c
         IN  <<v % 8192>> \o BigAddFrom(a, b, v \div 8192, i + 1)
BigAdd(a, b) == BigAddFrom(a, b, 0, 1)

\* a - b, a >= b
RECURSIVE BigSubFrom(_, _, _, _)
BigSubFrom(a, b, c, i) ==
    IF i > Len(a) THEN <<>>
    ELSE LET v == a[i] - BigLimb(b, i) - c
         IN  <<v % 8192>> \o BigSubFrom(a, b, IF v < 0 THEN 1 ELSE 0, i + 1)
BigSub(a, b) == BigNorm(BigSubFrom(a, b, 0, 1))

BigShiftLimbs(a, n) == IF a = <<>> THEN a ELSE [i \in 1..n |-> 0] \o a

RECURSIVE BigMul(_, _)
BigMul(a, b) ==
    IF b = <<>> THEN <<>>
    ELSE BigAdd(BigMulAdd(a, b[1], 0), BigShiftLimbs(BigMul(a, Tail(b)), 1))

BigShl(a, n) == BigMulAdd(BigShiftLimbs(a, n \div 13), 2^(n % 13), 0)

\* floor(a / k) for small k
RECURSIVE BigDivSmallFrom(_, _, _, _)
BigDivSmallFrom(a, k, r, i) ==
    IF i = 0 THEN <<>>
    ELSE LET v == r * 8192 + a[i]
         IN  BigDivSmallFrom(a, k, v % k, i - 1) \o <<v \div k>>
BigDivSmall(a, k) == BigNorm(BigDivSmallFrom(a, k, 0, Len(a)))

BigShr(a, n) ==
    IF n \div 13 >= Len(a) THEN <<>>
    ELSE BigDivSmall(SubSeq(a, (n \div 13) + 1, Len(a)), 2^(n % 13))

BigBitLen(a) == IF a = <<>> THEN 0 ELSE 13 * (Len(a) - 1) + Log2(a[Len(a)]) + 1

BigBit(a, i) == (BigLimb(a, (i \div 13) + 1) \div 2^(i % 13)) % 2

\* the n lowest bits of a are zero
BigLowZero(a, n) ==
    /\ \A i \in 1..(n \div 13) : BigLimb(a, i) = 0
    /\ BigLimb(a, (n \div 13) + 1) % 2^(n % 13) = 0

BigOfInt(n) == BigMulAdd(<<>>, 0, n)

\* long division, st.n more bits: from the quotient st.q and remainder
\* st.r < b so far to floor((q * b + r) * 2^n / b) and whether a remainder
\* is left
RECURSIVE BigDivBits(_, _)
BigDivBits(st, b) ==
    IF st.n = 0 THEN [q |-> st.q, inexact |-> st.r # <<>>]
    ELSE LET Step(r2) ==
                 IF BigLess(r2, b)
                 THEN [q |-> BigMulAdd(st.q, 2, 0), r |-> r2, n |-> st.n - 1]
                 ELSE [q |-> BigMulAdd(st.q, 2, 1), r |-> BigSub(r2, b), n |-> st.n - 1]
         IN  BigDivBits(Step(BigMulAdd(st.r, 2, 0)), b)

\* floor(sqrt(a)) and whether a is no square, bit by bit from the power
\* of 4 st.bit down; st.a is what is left of a, st.res the root so far
RECURSIVE BigSqrtBits(_)
BigSqrtBits(st) ==
    IF st.bit = <<>> THEN [q |-> st.res, inexact |-> st.a # <<>>]
    ELSE LET Step(t, half, bit) ==
                 IF BigLess(st.a, t)
                 THEN [a |-> st.a, res |-> half, bit |-> bit]
                 ELSE [a |-> BigSub(st.a, t), res |-> BigAdd(half, st.bit), bit |-> bit]
         IN  BigSqrtBits(Step(BigAdd(st.res, st.bit), BigShr(st.res, 1), BigShr(st.bit, 2)))

----------------------------------------------------------------------------
(* Arithmetic on Python floats and numpy float64: IEEE-754 binary64,      *)
(* round to nearest, ties to even                                         *)

Zero64(s) == Double(s, 0, 0, 0)
Inf64(s) == Double(s, 2047, 0, 0)
NaN64 == Double(0, 2047, 33554432, 0)
IsZero(a) == a.e = 0 /\ a.hi = 0 /\ a.lo = 0
IsInf(a) == a.e = 2047 /\ a.hi = 0 /\ a.lo = 0

\* the 53-bit significand of a normal double
Significand(a) ==
    <<a.lo % 8192, a.lo \div 8192, a.hi % 8192, a.hi \div 8192, 1>>

\* the double nearest to (-1)^s * m * 2^p for m # 0, when more was cut off
\* below m (sticky) m has at least 55 bits
Round64(s, m, p, sticky) ==
    LET Pack(q, e) ==
            IF e >= 2047 THEN Inf64(s)
            ELSE IF e <= 0 THEN Zero64(s)
            ELSE Double(s, e, BigLimb(q, 3) + 8192 * BigLimb(q, 4),
                              BigLimb(q, 1) + 8192 * BigLimb(q, 2))
        Carry(q1, e, over) ==
            Pack(IF over THEN BigShr(q1, 1) ELSE q1, IF over THEN e + 1 ELSE e)
        Up(q0, cut) ==
            LET up == /\ cut > 0
                      /\ BigBit(m, cut - 1) = 1
                      /\ \/ sticky
                         \/ ~BigLowZero(m, cut - 1)
                         \/ BigBit(q0, 0) = 1
            IN  Carry(IF up THEN BigMulAdd(q0, 1, 1) ELSE q0, p + cut + 1075,
                      up /\ \A i \in 0..52 : BigBit(q0, i) = 1)
        Cut(cut) == Up(IF cut > 0 THEN BigShr(m, cut) ELSE BigShl(m, 0 - cut), cut)
    IN  Cut(BigBitLen(m) - 53)

\* float(n) of an int
float(n) ==
    IF n = 0 THEN Zero64(0)
    ELSE Round64(IF n < 0 THEN 1 ELSE 0, BigOfInt(IF n < 0 THEN 0 - n ELSE n), 0, FALSE)

Xor(s, t) == (s + t) % 2

mul(a, b) ==
    IF isnan(a) \/ isnan(b) THEN NaN64
    ELSE IF IsInf(a) \/ IsInf(b)
         THEN IF IsZero(a) \/ IsZero(b) THEN NaN64 ELSE Inf64(Xor(a.s, b.s))
    ELSE IF IsZero(a) \/ IsZero(b) THEN Zero64(Xor(a.s, b.s))
    ELSE Round64(Xor(a.s, b.s), BigMul(Significand(a), Significand(b)),
                 a.e + b.e - 2150, FALSE)

\* a / b as numpy divides: a zero divisor gives inf or nan
truediv(a, b) ==
    IF isnan(a) \/ isnan(b) THEN NaN64
    ELSE IF IsInf(a) THEN IF IsInf(b) THEN NaN64 ELSE Inf64(Xor(a.s, b.s))
    ELSE IF IsInf(b) THEN Zero64(Xor(a.s, b.s))
    ELSE IF IsZero(b) THEN IF IsZero(a) THEN NaN64 ELSE Inf64(Xor(a.s, b.s))
    ELSE IF IsZero(a) THEN Zero64(Xor(a.s, b.s))
    ELSE LET ma == Significand(a)
             mb == Significand(b)
             Quotient(d) == Round64(Xor(a.s, b.s), d.q, a.e - b.e - 56, d.inexact)
         IN  Quotient(BigDivBits(IF BigLess(ma, mb)
                                 THEN [q |-> <<>>, r |-> ma, n |-> 56]
                                 ELSE [q |-> <<1>>, r |-> BigSub(ma, mb), n |-> 56],
                                 mb))

neg(a) == [a EXCEPT !.s = 1 - @]

add(a, b) ==
    IF isnan(a) \/ isnan(b) THEN NaN64
    ELSE IF IsInf(a) THEN IF IsInf(b) /\ a.s # b.s THEN NaN64 ELSE a
    ELSE IF IsInf(b) THEN b
    ELSE IF IsZero(a) THEN IF IsZero(b) /\ a.s # b.s THEN Zero64(0) ELSE b
    ELSE IF IsZero(b) THEN a
    ELSE IF a.e - b.e > 64 THEN a
    ELSE IF b.e - a.e > 64 THEN b
    ELSE LET e == IF a.e < b.e THEN a.e ELSE b.e
             Sum(ma, mb) ==
                 IF a.s # b.s /\ ma = mb THEN Zero64(0)
                 ELSE Round64(IF a.s # b.s /\ BigLess(ma, mb) THEN b.s ELSE a.s,
                              IF a.s = b.s THEN BigAdd(ma, mb)
                              ELSE BigSub(IF BigLess(ma, mb) THEN mb ELSE ma,
                                          IF BigLess(ma, mb) THEN ma ELSE mb),
                              e - 1075, FALSE)
         IN  Sum(BigShl(Significand(a), a.e - e), BigShl(Significand(b), b.e - e))

sub(a, b) == add(a, neg(b))

sqrt(a) ==
    IF isnan(a) THEN NaN64
    ELSE IF IsZero(a) THEN a
    ELSE IF a.s = 1 THEN NaN64
    ELSE IF IsInf(a) THEN a
    ELSE LET k == IF (a.e - 1075) % 2 = 0 THEN 56 ELSE 57
             Root(r) == Round64(0, r.q, (a.e - 1075 - k) \div 2, r.inexact)
         IN  Root(BigSqrtBits([a   |-> BigShl(Significand(a), k),
                               res |-> <<>>,
                               bit |-> BigShl(<<1>>, 108)]))

\* x > 0 on floats
Positive(a) == a.s = 0 /\ ~isnan(a) /\ ~IsZero(a)

\* x < y on doubles that are no NaN
LessMagnitude(x, y) ==
    \/ x.e < y.e
    \/ x.e = y.e /\ x.hi < y.hi
    \/ x.e = y.e /\ x.hi = y.hi /\ x.lo < y.lo
FloatLess(x, y) ==
    \/ x.s = 1 /\ y.s = 0 /\ (x.e # 0 \/ y.e # 0)
    \/ x.s = 0 /\ y.s = 0 /\ LessMagnitude(x, y)
    \/ x.s = 1 /\ y.s = 1 /\ LessMagnitude(y, x)

----------------------------------------------------------------------------
(* visualize_wrcdata.py: StrokeAnalyzer.detect_strokes and the functions   *)
(* of scipy.signal it calls (butter, sosfilt, find_peaks)                  *)

\* the literals 0.3, 0.1 and 0.8
CatchHeight == Double(0, 1021, 13421772, 53687091)
FinishHeight == Double(0, 1019, 40265318, 26843546)
DistanceFactor == Double(0, 1022, 40265318, 26843546)

\* x == y and x <= y on floats
FloatEq(x, y) == ~isnan(x) /\ ~isnan(y) /\ (x = y \/ (IsZero(x) /\ IsZero(y)))
FloatLeq(x, y) == ~isnan(x) /\ ~isnan(y) /\ (FloatEq(x, y) \/ FloatLess(x, y))

\* math.ceil of a float >= 1 below 2^30
ceil(a) ==
    LET m  == Significand(a)
        sh == 1075 - a.e
        q  == BigShr(m, sh)
        n  == BigLimb(q, 1) + 8192 * BigLimb(q, 2) + 8192 * 8192 * BigLimb(q, 3)
    IN  IF BigLowZero(m, sh) THEN n ELSE n + 1

\* signal.butter(2, [0.3, 1.2], btype='band', fs=fs, output='sos'): the
\* two second-order sections b0, b1, b2, a1, a2 (a0 = 1) of the Butterworth
\* band-pass, for the sample rates 50 Hz and 5 Hz
Section(b0, b1, b2, a1, a2) ==
    [b0 |-> b0, b1 |-> b1, b2 |-> b2, a1 |-> a1, a2 |-> a2]
butter(fs) ==
    IF fs = 50
    THEN << Section(Double(0, 1014, 34536529, 10241298),
                    Double(0, 1015, 34536529, 10241298),
                    Double(0, 1014, 34536529, 10241298),
                    Double(1, 1023, 58354918, 19495340),
                    Double(0, 1022, 51828011, 22630721)),
            Section(Double(0, 1023, 0, 0),
                    Double(1, 1024, 0, 0),
                    Double(0, 1023, 0, 0),
                    Double(1, 1023, 64416499, 20897227),
                    Double(0, 1022, 61965746, 21293841)) >>
    ELSE << Section(Double(0, 1020, 26890598, 62959644),
                    Double(0, 1021, 26890598, 62959644),
                    Double(0, 1020, 26890598, 62959644),
                    Double(1, 1020, 65413040, 8080657),
                    Double(0, 1021, 22988028, 23801263)),
            Section(Double(0, 1023, 0, 0),
                    Double(1, 1024, 0, 0),
                    Double(0, 1023, 0, 0),
                    Double(1, 1023, 34023575, 39138809),
                    Double(0, 1022, 20728447, 34965541)) >>

\* one second-order section over x, direct form II transposed: st holds
\* the two delays and the output so far, the next sample is the one after
\* the outputs
RECURSIVE Biquad(_, _, _)
Biquad(s, x, st) ==
    IF Len(st.y) >= Len(x) THEN st.y
    ELSE LET Step(xn, y) ==
                 [z1 |-> add(sub(mul(s.b1, xn), mul(s.a1, y)), st.z2),
                  z2 |-> sub(mul(s.b2, xn), mul(s.a2, y)),
                  y  |-> Append(st.y, y)]
         IN  Biquad(s, x, Step(x[Len(st.y) + 1],
                               add(mul(s.b0, x[Len(st.y) + 1]), st.z1)))

\* signal.sosfilt(sos, x): the sections in cascade, all delays 0 at first
RECURSIVE sosfilt(_, _)
sosfilt(sos, x) ==
    IF sos = <<>> THEN x
    ELSE sosfilt(Tail(sos),
                 Biquad(Head(sos), x,
                        [z1 |-> Zero64(0), z2 |-> Zero64(0), y |-> <<>>]))

\* the last index (from 0) of the plateau of x that starts at index i
RECURSIVE Ahead(_, _, _)
Ahead(x, i, j) ==
    IF j < Len(x) - 1 /\ FloatEq(x[j + 1], x[i + 1]) THEN Ahead(x, i, j + 1) ELSE j

\* the local maxima of x from index i on: the indices (from 0) of the
\* samples, or middles of plateaus, with a lower sample on both sides
RECURSIVE local_maxima_1d(_, _)
local_maxima_1d(x, i) ==
    IF i >= Len(x) - 1 THEN <<>>
    ELSE LET Scan(a, peak) ==
                 (IF peak THEN <<(i + a - 1) \div 2>> ELSE <<>>)
                 \o local_maxima_1d(x, IF peak THEN a + 1 ELSE i + 1)
             Plateau(a) ==
                 Scan(a, FloatLess(x[i], x[i + 1]) /\ FloatLess(x[a + 1], x[i + 1]))
         IN  Plateau(Ahead(x, i, i + 1))

\* the peaks of at least the height hmin
\* every local maximum, whatever its height
AnyHeight(x, peaks, hmin) == peaks

RECURSIVE select_by_property(_, _, _)
select_by_property(x, peaks, hmin) ==
    IF peaks = <<>> THEN <<>>
    ELSE (IF FloatLeq(hmin, x[Head(peaks) + 1]) THEN <<Head(peaks)>> ELSE <<>>)
         \o select_by_property(x, Tail(peaks), hmin)

\* the position in todo that comes last when the peaks are sorted by height
Highest(x, peaks, todo) ==
    CHOOSE j \in todo :
        \A k \in todo \ {j} :
            \/ FloatLess(x[peaks[k] + 1], x[peaks[j] + 1])
            \/ FloatEq(x[peaks[k] + 1], x[peaks[j] + 1]) /\ k < j

\* no peak removes another
AnyDistance(x, peaks, distance, keep, todo) == keep

\* from the highest peak down, every peak still kept removes the peaks
\* nearer to it than distance
RECURSIVE select_by_peak_distance(_, _, _, _, _)
select_by_peak_distance(x, peaks, distance, keep, todo) ==
    IF todo = {} THEN keep
    ELSE LET From(j) ==
                 select_by_peak_distance(x, peaks, distance,
                     IF j \notin keep THEN keep
                     ELSE {k \in keep : k = j \/ peaks[k] - peaks[j] >= distance
                                              \/ peaks[j] - peaks[k] >= distance},
                     todo \ {j})
         IN  From(Highest(x, peaks, todo))

RECURSIVE Kept(_, _, _)
Kept(peaks, keep, k) ==
    IF k > Len(peaks) THEN <<>>
    ELSE (IF k \in keep THEN <<peaks[k]>> ELSE <<>>) \o Kept(peaks, keep, k + 1)

\* signal.find_peaks(x, height=height, distance=distance)
find_peaks(x, height, distance) ==
    LET Select(peaks) ==
            Kept(peaks,
                 select_by_peak_distance(x, peaks, ceil(distance),
                                         DOMAIN peaks, DOMAIN peaks),
                 1)
    IN  Select(select_by_property(x, local_maxima_1d(x, 1), height))

\* the signal itself in place of its negation
NotNegated(x) == x

Negated(x) == [i \in DOMAIN x |-> neg(x[i])]

\* the filter writing its output over the array it was given
detect_strokes_in_place ==
    /\ program = "visualize_wrcdata"
    /\ pc = "detect_strokes"
    /\ filtered' = sosfilt(butter(analyzer.fs), acceleration)
    /\ acceleration' = filtered'
    /\ catches' = find_peaks(filtered', CatchHeight, mul(float(analyzer.fs), DistanceFactor))
    /\ finishes' = find_peaks(Negated(filtered'), FinishHeight, mul(float(analyzer.fs), DistanceFactor))
    /\ pc' = "calculate_stroke_metrics"
    /\ UNCHANGED <<program, error, analyzer, stroke_rates, drive_ratios, metrics, frames>>
    /\ UNCHANGED fileVars

detect_strokes ==
    /\ program = "visualize_wrcdata"
    /\ pc = "detect_strokes"
    /\ filtered' = sosfilt(butter(analyzer.fs), acceleration)
    /\ catches' = find_peaks(filtered', CatchHeight,
                             mul(float(analyzer.fs), DistanceFactor))
    /\ finishes' = find_peaks(Negated(filtered'), FinishHeight,
                              mul(float(analyzer.fs), DistanceFactor))
    /\ pc' = "calculate_stroke_metrics"
    /\ UNCHANGED <<program, error, analyzer, acceleration, stroke_rates,
                   drive_ratios, metrics, frames>>
    /\ UNCHANGED fileVars

----------------------------------------------------------------------------
(* visualize_wrcdata.py: StrokeAnalyzer.calculate_stroke_metrics *)

InsufficientDataNone(c) == Len(c) < 1

\* len(catches) < 2
InsufficientData(c) == Len(c) < 2

\* np.diff of a sequence of ints
np_diff(a) == [i \in 1..(Len(a) - 1) |-> a[i + 1] - a[i]]

\* the sum of a float64 array as add.reduce takes it for fewer than 8
\* elements: from 0.0, element after element
RECURSIVE np_sum(_)
np_sum(xs) ==
    IF xs = <<>> THEN Zero64(0)
    ELSE add(np_sum(SubSeq(xs, 1, Len(xs) - 1)), xs[Len(xs)])

np_mean(xs) == truediv(np_sum(xs), float(Len(xs)))

\* np.std: the square root of the mean of the squared deviations from
\* the mean
np_std(xs) ==
    LET Square(d) == mul(d, d)
        Deviation(m) ==
            sqrt(truediv(np_sum([i \in DOMAIN xs |-> Square(sub(xs[i], m))]),
                         float(Len(xs))))
    IN  Deviation(np_mean(xs))

StrokeTimesInSamples(c, fs) == [i \in 1..(Len(c) - 1) |-> float(np_diff(c)[i])]

\* stroke_times = np.diff(catches) / self.fs
StrokeTimes(c, fs) ==
    [i \in 1..(Len(c) - 1) |-> truediv(float(np_diff(c)[i]), float(fs))]

\* stroke_rates = 60 / stroke_times
StrokeRates(c, fs) ==
    [i \in 1..(Len(c) - 1) |-> truediv(float(60), StrokeTimes(c, fs)[i])]

RecoveryRatio(catch, finish, next, fs) ==
    mul(truediv(truediv(float(next - finish), float(fs)),
                truediv(float(next - catch), float(fs))), float(100))

\* (drive_time / total_time) * 100 of lines 49-52
DriveRatio(catch, finish, next, fs) ==
    mul(truediv(truediv(float(finish - catch), float(fs)),
                truediv(float(next - catch), float(fs))), float(100))

\* one less than the smaller
min_less_one(a, b) == (IF a < b THEN a ELSE b) - 1

min(a, b) == IF a < b THEN a ELSE b

\* the loop of lines 46-52 from index i on (i counts from 0 as in the
\* code, catches[i] is c[i + 1])
RECURSIVE DriveRatios(_, _, _, _)
DriveRatios(c, f, fs, i) ==
    IF i >= min(Len(c), Len(f)) THEN <<>>
    ELSE (IF /\ i < Len(f)
             /\ c[i + 1] < f[i + 1]
             /\ i + 1 < Len(c)
             /\ Positive(truediv(float(c[i + 2] - c[i + 1]), float(fs)))
          THEN <<DriveRatio(c[i + 1], f[i + 1], c[i + 2], fs)>>
          ELSE <<>>)
         \o DriveRatios(c, f, fs, i + 1)

calculate_stroke_metrics ==
    /\ program = "visualize_wrcdata"
    /\ pc = "calculate_stroke_metrics"
    /\ IF InsufficientData(catches)
       THEN /\ metrics' = None
            /\ UNCHANGED <<stroke_rates, drive_ratios>>
       ELSE /\ stroke_rates' = StrokeRates(catches, analyzer.fs)
            /\ drive_ratios' = DriveRatios(catches, finishes, analyzer.fs, 0)
            /\ metrics' =
                  [stroke_rate_mean |-> np_mean(stroke_rates'),
                   stroke_rate_std  |-> np_std(stroke_rates'),
                   drive_ratio_mean |-> IF drive_ratios' # <<>>
                                        THEN np_mean(drive_ratios') ELSE None,
                   drive_ratio_std  |-> IF drive_ratios' # <<>>
                                        THEN np_std(drive_ratios') ELSE None,
                   stroke_count     |-> Len(catches)]
    /\ pc' = "returned"
    /\ UNCHANGED <<program, error, analyzer, acceleration, filtered, catches, finishes,
                   frames>>
    /\ UNCHANGED fileVars

----------------------------------------------------------------------------
(* The files on disk and the samples of the test *)

MaxCount == 2      \* largest record count a file header declares
MaxSamples == 2    \* most samples of a kind handed to the test writer

\* 16-byte magic fields: the three tags zero-padded, 'WRC_COACH_V2extr',
\* 'WRC_COACH_V1' with a zero inside the padding, 'WRC_COACH_V9', a tag in
\* lower case, a tag after a leading character, a byte that is not ASCII,
\* and no tag at all
TagV1 == MAGIC_V1 \o Zeros(4)
TagV2 == MAGIC_V2 \o Zeros(4)
TagV3 == MAGIC_V3 \o Zeros(4)
Tags ==
    {TagV1, TagV2, TagV3,
     MAGIC_V2 \o <<101, 120, 116, 114>>,
     MAGIC_V1 \o <<0, 120, 0, 0>>,
     MAGIC_V3 \o <<95, 98, 0, 0>>,
     TagStem \o <<57>> \o Zeros(4),
     <<119, 114, 99, 95, 99, 111, 97, 99, 104, 95, 118, 50>> \o Zeros(4),
     <<88>> \o MAGIC_V2 \o Zeros(3),
     MAGIC_V2 \o <<255, 0, 0, 0>>,
     Zeros(16)}

\* the flag bytes has_calibration, device orientation, demo mode
Flags == {<<0, 0, 1>>, <<1, 1, 0>>, <<2, 2, 2>>, <<1, 0, 255>>}

Seeds == {0, 1}

\* n bytes of content; seed 1 is all ones (every float a NaN)
Fill(seed, salt, n) ==
    [i \in 1..n |-> IF seed = 1 THEN 255 ELSE (salt * 59 + i * 7 + (i \div 8) * 3) % 256]

\* which layout the producer of a file with this magic field wrote
LayoutOf(tag) ==
    IF startswith(tag, MAGIC_V1) THEN 1
    ELSE IF startswith(tag, MAGIC_V3) THEN 3
    ELSE 2

RECURSIVE Records(_, _, _, _)
Records(seed, salt, size, n) ==
    IF n = 0 THEN <<>>
    ELSE Records(seed, salt, size, n - 1) \o Fill(seed, salt + 5 * n, size)

FileParams ==
    [tag : Tags, imu : 0..MaxCount, gps : 0..MaxCount, cal : 0..MaxCount,
     flags : Flags, seed : Seeds]

\* a file laid out as its magic field announces, holding the records its
\* header declares
FullFile(p) ==
    LET layout == LayoutOf(p.tag)
    IN  p.tag \o pack_I(p.imu) \o pack_I(p.gps)
          \o (IF layout >= 2 THEN pack_I(p.cal) \o pack_B(p.flags[1]) ELSE <<>>)
          \o Fill(p.seed, 1, 8)
          \o pack_B(p.flags[2]) \o pack_B(p.flags[3])
          \o Fill(p.seed, 2, 8)
          \o (IF layout >= 2 THEN Fill(p.seed, 3, 81) ELSE Fill(p.seed, 3, 22))
          \o (IF layout >= 2 /\ p.flags[1] = 1 THEN Fill(p.seed, 4, 64) ELSE <<>>)
          \o Records(p.seed, 10, IF layout = 3 THEN 44 ELSE 32, p.imu)
          \o Records(p.seed, 11, 36, p.gps)
          \o (IF layout >= 2 THEN Records(p.seed, 12, 32, p.cal) ELSE <<>>)

\* the files that are also cut short at every length, or carry bytes after
\* their last record
CutParams ==
    {p \in FileParams : /\ p.tag \in {TagV1, TagV2}
                        /\ p.seed = 0
                        /\ p.flags \in {<<0, 0, 1>>, <<1, 1, 0>>}}

\* a file whose motion count is 4294967295
HugeCount(f) == [i \in 1..Len(f) |-> IF i \in 17..20 THEN 255 ELSE f[i]]

\* a file under another magic field than the one it was laid out for
Retagged(tag, f) == tag \o SubSeq(f, 17, Len(f))

Files ==
    {FullFile(p) : p \in FileParams}
        \cup UNION {{Slice(FullFile(p), 0, c) : c \in 0..Len(FullFile(p))} : p \in CutParams}
        \cup {FullFile(p) \o Fill(0, 20, 40) : p \in CutParams}
        \cup {HugeCount(FullFile(p)) : p \in CutParams}
        \cup {Retagged(TagV1, FullFile(p)) : p \in {q \in CutParams : q.tag = TagV2}}
        \cup {Slice(tag, 0, c) : tag \in Tags, c \in 0..15}

\* check_file is run on the whole files, on the short ones, and on the V3
\* files of motion records only cut short at every length
CheckFiles ==
    {FullFile(p) : p \in FileParams}
        \cup {Slice(tag, 0, c) : tag \in Tags, c \in 0..15}
        \cup UNION {{Slice(FullFile(p), 0, c) : c \in 0..Len(FullFile(p))} :
                      p \in {q \in FileParams : /\ q.tag = TagV3
                                                /\ q.gps = 0 /\ q.cal = 0
                                                /\ q.seed = 0
                                                /\ q.flags \in {<<0, 0, 1>>, <<1, 1, 0>>}}}

\* the f32 values NaN and 1.0
NaN32 == <<0, 0, 192, 127>>
One32 == <<0, 0, 128, 63>>

\* a 44-byte motion record whose orientation channels mx, my, mz are NaN
\* for the channels in nans
OrientationRecord(nans) ==
    Fill(0, 7, 32) \o (IF 1 \in nans THEN NaN32 ELSE One32)
                   \o (IF 2 \in nans THEN NaN32 ELSE One32)
                   \o (IF 3 \in nans THEN NaN32 ELSE One32)

RECURSIVE OrientationRecords(_)
OrientationRecords(recs) ==
    IF recs = <<>> THEN <<>>
    ELSE OrientationRecord(Head(recs)) \o OrientationRecords(Tail(recs))

\* a V3 file as its producer lays it out: the header fields, zeros up to
\* byte 128, the calibration block when the flag is set, the motion records
V3File(cal, recs) ==
    TagV3 \o pack_I(Len(recs)) \o pack_I(0) \o pack_I(0) \o pack_B(cal)
          \o pack_d(SessionStartLiteral) \o pack_B(0) \o pack_B(0)
          \o pack_f(CatchLiteral) \o pack_f(FinishLiteral) \o Zeros(81)
          \o (IF cal = 1 THEN Fill(0, 4, 64) ELSE <<>>)
          \o OrientationRecords(recs)

V3Files ==
    {V3File(cal, recs) : cal \in {0, 1},
                         recs \in UNION {[1..k -> SUBSET {1, 2, 3}] : k \in 0..MaxCount}}

LongCount == 101    \* motion records of the one file longer than check_file looks

\* a V3 file of more than 100 motion records; every third one is without
\* orientation
LongV3File ==
    V3File(0, [k \in 1..LongCount |-> IF k % 3 = 0 THEN {1, 2, 3} ELSE {}])

\* sample values: 0.0, 1.0, 0.6, 9.8, 53.5001, 1e-40, 16777217.0, -2.5,
\* 1697200000000.0 and 1e300
Vals ==
    <<Double(0, 0, 0, 0), Double(0, 1023, 0, 0), CatchLiteral,
      Double(0, 1026, 15099494, 26843546), Double(0, 1028, 45088977, 47996260),
      Double(0, 890, 5966217, 58152860), Double(0, 1047, 4, 0),
      Double(1, 1024, 16777216, 0), SessionStartLiteral,
      Double(0, 2019, 33099554, 30108)>>

IMUSample(t, ax, ay, az, gx, gy, gz) ==
    [timestamp |-> Vals[t], ax |-> Vals[ax], ay |-> Vals[ay], az |-> Vals[az],
     gx |-> Vals[gx], gy |-> Vals[gy], gz |-> Vals[gz]]

GPSSample(t, lat, lon, speed, heading, accuracy) ==
    [timestamp |-> Vals[t], lat |-> Vals[lat], lon |-> Vals[lon],
     speed |-> Vals[speed], heading |-> Vals[heading], accuracy |-> Vals[accuracy]]

\* the last IMU sample has a gyroscope value no f32 holds
TestImu ==
    {IMUSample(1, 3, 8, 4, 2, 6, 7), IMUSample(9, 4, 3, 8, 7, 1, 5),
     IMUSample(2, 5, 6, 7, 3, 8, 4), IMUSample(7, 2, 2, 4, 10, 1, 1)}

TestGps ==
    {GPSSample(1, 5, 4, 3, 2, 7), GPSSample(9, 10, 7, 6, 5, 8),
     GPSSample(2, 3, 5, 7, 4, 2)}

SeqsUpTo(S, n) == UNION {[1..k -> S] : k \in 0..n}

Unset ==
    /\ offset = 0
    /\ magic = <<>>
    /\ version = 0
    /\ header = None
    /\ imu_samples = <<>>
    /\ gps_samples = <<>>
    /\ calibration_samples = <<>>
    /\ result = None
    /\ error = None
    /\ checked = None

\* no stroke analysis runs
NoAnalysis ==
    /\ analyzer = None
    /\ acceleration = None
    /\ filtered = None
    /\ catches = None
    /\ finishes = None
    /\ stroke_rates = None
    /\ drive_ratios = None
    /\ metrics = None
    /\ frames = None

\* read_wrcdata.py and check_file.py start on a file of the disk,
\* test_binary_format.py on samples it writes and then reads back
Init ==
    /\ Unset
    /\ NoAnalysis
    /\ \/ /\ program = "read_wrcdata"
          /\ pc = "read"
          /\ data \in Files
          /\ original = None
       \/ /\ program = "check_file"
          /\ pc = "check_file"
          /\ data \in CheckFiles \cup V3Files \cup {LongV3File}
          /\ original = None
       \/ /\ program = "test_binary_format"
          /\ pc = "write"
          /\ data = <<>>
          /\ original \in [imu_samples : SeqsUpTo(TestImu, MaxSamples),
                           gps_samples : SeqsUpTo(TestGps, MaxSamples)]

Next ==
    \/ write_binary_test_file
    \/ ReadDetect
    \/ ReadHeader
    \/ ReadCalibration
    \/ ReadImuSamples
    \/ ReadGpsSamples
    \/ ReadCalibrationSamples
    \/ verify_round_trip
    \/ CheckFileDetect
    \/ CheckFileHeader
    \/ CheckFileSamples

Spec == Init /\ [][Next]_vars

----------------------------------------------------------------------------
(* The stroke metrics on their own: calculate_stroke_metrics on catch and  *)
(* finish indices at a sample rate                                         *)

MaxStrokes == 4    \* most catches handed to calculate_stroke_metrics

\* catches one second apart at 50 Hz, any of them missing; and two
\* sequences that do not increase
CatchSeqs ==
    {s \in UNION {[1..k -> {50 * j : j \in 0..(MaxStrokes - 1)}] : k \in 0..MaxStrokes} :
         \A i \in 1..(Len(s) - 1) : s[i] < s[i + 1]}
        \cup {<<50, 50>>, <<50, 0>>}

\* finishes 20 samples after a catch, or on the second catch
FinishPositions == {50} \cup {50 * j + 20 : j \in 0..(MaxStrokes - 3)}

FinishSeqs ==
    {s \in UNION {[1..k -> FinishPositions] : k \in 0..Cardinality(FinishPositions)} :
         \A i \in 1..(Len(s) - 1) : s[i] < s[i + 1]}

\* the default sample rate and another
SampleRates == {50, 30}

InitMetrics ==
    /\ Unset
    /\ data = <<>>
    /\ original = None
    /\ program = "visualize_wrcdata"
    /\ pc = "calculate_stroke_metrics"
    /\ analyzer \in [imu : {<<>>}, gps : {<<>>}, fs : SampleRates]
    /\ acceleration = None
    /\ filtered = None
    /\ catches \in CatchSeqs
    /\ finishes \in FinishSeqs
    /\ stroke_rates = None
    /\ drive_ratios = None
    /\ metrics = None
    /\ frames = None

NextMetrics == calculate_stroke_metrics

SpecMetrics == InitMetrics /\ [][NextMetrics]_vars

----------------------------------------------------------------------------
(* The stroke analysis of create_comprehensive_plot: detect_strokes on an  *)
(* acceleration series, then calculate_stroke_metrics on what it found     *)

MaxSeries == 5     \* most samples of a series at 5 Hz
FlatLength == 24   \* samples of the flat series at 50 Hz

\* the accelerations 0.0, 1.0, -1.0 and 2.0
Levels == {Zero64(0), float(1), neg(float(1)), float(2)}
Series == UNION {[1..n -> {Zero64(0), float(1), neg(float(1))}] : n \in 1..MaxSeries}
Flat(level, n) == [i \in 1..n |-> level]

Blocks == 4        \* three-sample blocks of a rowed series at 5 Hz

\* series of Blocks blocks, each a pull (-1, -1, 1), a run (0, -1, -1) or
\* a check (1, -1, -1)
StrokeBlocks ==
    {<<neg(float(1)), neg(float(1)), float(1)>>,
     <<Zero64(0), neg(float(1)), neg(float(1))>>,
     <<float(1), neg(float(1)), neg(float(1))>>}
RECURSIVE BlockSeries(_)
BlockSeries(n) ==
    IF n = 0 THEN {<<>>}
    ELSE {s \o b : s \in BlockSeries(n - 1), b \in StrokeBlocks}

InitDetect ==
    /\ Unset
    /\ data = <<>>
    /\ original = None
    /\ program = "visualize_wrcdata"
    /\ pc = "detect_strokes"
    /\ \/ /\ analyzer \in [imu : {<<>>}, gps : {<<>>}, fs : {5}]
          /\ acceleration \in Series \cup {Flat(l, MaxSeries + 2) : l \in Levels}
                                     \cup BlockSeries(Blocks)
       \/ /\ analyzer \in [imu : {<<>>}, gps : {<<>>}, fs : {50}]
          /\ acceleration \in {Flat(l, FlatLength) : l \in Levels}
    /\ filtered = None
    /\ catches = None
    /\ finishes = None
    /\ stroke_rates = None
    /\ drive_ratios = None
    /\ metrics = None
    /\ frames = None

NextDetect ==
    \/ detect_strokes
    \/ calculate_stroke_metrics

SpecDetect == InitDetect /\ [][NextDetect]_vars

----------------------------------------------------------------------------
(* read_wrcdata.py: read_as_dataframes *)

\* (column - t0) / 1000 over the rows of a table
TimeColumn(rows, t0) ==
    [i \in DOMAIN rows |-> truediv(sub(rows[i].timestamp, t0), float(1000))]

\* lines 206-207; a table without rows gets no column, here the empty one
imu_time_s(imu) ==
    IF Len(imu) > 0 THEN TimeColumn(imu, imu[1].timestamp) ELSE <<>>

\* lines 208-210
gps_time_s(imu, gps) ==
    IF Len(gps) > 0
    THEN TimeColumn(gps, IF Len(imu) > 0 THEN imu[1].timestamp ELSE gps[1].timestamp)
    ELSE <<>>

\* lines 211-212
cal_time_s(imu, cal) ==
    IF Len(cal) > 0 THEN TimeColumn(cal, cal[1].timestamp) ELSE <<>>

\* lines 162 and 165-214: after self.read() has returned; an exception of
\* read() ends read_as_dataframes too
read_as_dataframes ==
    /\ program = "read_as_dataframes"
    /\ pc = "returned"
    /\ frames' = [imu |-> imu_time_s(result.imu_samples),
                  gps |-> gps_time_s(result.imu_samples, result.gps_samples),
                  cal |-> cal_time_s(result.imu_samples, result.calibration_samples)]
    /\ pc' = "frames"
    /\ UNCHANGED <<program, error, analyzer, acceleration, filtered, catches, finishes,
                   stroke_rates, drive_ratios, metrics>>
    /\ UNCHANGED fileVars

MaxRows == 2    \* most rows of the motion and of the calibration table

\* timestamps in milliseconds
Stamps == {float(1000), float(1250), float(4000)}

StampSeqs(n) == UNION {[1..k -> Stamps] : k \in 0..n}

\* records of size bytes that begin with the timestamps of stamps
RECURSIVE StampedRecords(_, _)
StampedRecords(stamps, size) ==
    IF stamps = <<>> THEN <<>>
    ELSE pack_d(Head(stamps)) \o Fill(0, Len(stamps), size - 8)
           \o StampedRecords(Tail(stamps), size)

\* a V2 file without calibration block whose records carry these timestamps
FrameFile(imu, gps, cal) ==
    TagV2 \o pack_I(Len(imu)) \o pack_I(Len(gps)) \o pack_I(Len(cal)) \o pack_B(0)
          \o pack_d(SessionStartLiteral) \o pack_B(0) \o pack_B(0)
          \o pack_f(CatchLiteral) \o pack_f(FinishLiteral) \o Zeros(81)
          \o StampedRecords(imu, IMU_SAMPLE_SIZE)
          \o StampedRecords(gps, GPS_SAMPLE_SIZE)
          \o StampedRecords(cal, IMU_SAMPLE_SIZE)

FrameFiles ==
    {FrameFile(imu, gps, cal) : imu \in StampSeqs(MaxRows), gps \in StampSeqs(1),
                                cal \in StampSeqs(MaxRows)}
        \cup {Slice(FrameFile(<<float(1000)>>, <<>>, <<>>), 0, 150)}

InitFrames ==
    /\ Unset
    /\ NoAnalysis
    /\ program = "read_as_dataframes"
    /\ pc = "read"
    /\ data \in FrameFiles
    /\ original = None

NextFrames ==
    \/ ReadDetect
    \/ ReadHeader
    \/ ReadCalibration
    \/ ReadImuSamples
    \/ ReadGpsSamples
    \/ ReadCalibrationSamples
    \/ read_as_dataframes

SpecFrames == InitFrames /\ [][NextFrames]_vars

----------------------------------------------------------------------------
(* Vocabulary of the properties *)

Raised(type) == pc = "raised" /\ error # None /\ error.type = type

\* read() is running or has ended
Reading ==
    /\ program \in {"read_wrcdata", "test_binary_format"}
    /\ pc # "write"
    /\ ~Raised("OverflowError")

\* read() has returned
Returned == Reading /\ pc = "returned" /\ result # None

\* format detection is over and produced a tag
PastDetect ==
    /\ pc \notin {"write", "read", "check_file"}
    /\ ~Raised("OverflowError")
    /\ ~Raised("UnicodeDecodeError")

\* the file starts with the 12 characters of a tag
HasPrefix(tag) == Len(data) >= 12 /\ SubSeq(data, 1, 12) = tag

\* bytes a..b-1 of the file
Bytes(a, b) == SubSeq(data, a + 1, b)

\* the double x is a value of binary32, and the number of binary32 values
\* of magnitude at most |x| (the position of |x| on the binary32 grid)
Exact32(x) ==
    \/ x.e = 0 /\ x.hi = 0 /\ x.lo = 0
    \/ x.e >= 897 /\ x.e <= 1150 /\ x.lo = 0 /\ x.hi % 8 = 0
    \/ x.e < 897 /\ x.e >= 874 /\ x.lo = 0 /\ (67108864 + x.hi) % 2^(900 - x.e) = 0
GridIndex(x) ==
    IF x.e >= 897 THEN (x.e - 896) * 8388608 + (x.hi \div 8)
    ELSE IF x.e < 873 THEN 0
    ELSE (67108864 + x.hi) \div 2^(900 - x.e)

\* y is a binary32 value within one unit in the last place of x, and x
\* itself when x is a binary32 value
Near32(y, x) ==
    /\ y.s = x.s
    /\ Exact32(y)
    /\ GridIndex(y) - GridIndex(x) \in {0, 1}
    /\ Exact32(x) => y = x

\* the offset of the first motion record
RecordBase ==
    IF version = 2 /\ ByteAt(data, 28) = 1 THEN 192
    ELSE IF version = 2 THEN 128
    ELSE 64

----------------------------------------------------------------------------

(* C1: whenever read() returns, the three arrays have the lengths the      *)
(* header declares: imu_count, gps_count, and calibration_count for V2     *)
(* (no calibration sample for V1).                                         *)
C1_DeclaredLengths ==
    Returned =>
        /\ U32(Len(result.imu_samples)) = result.header.imu_count
        /\ U32(Len(result.gps_samples)) = result.header.gps_count
        /\ result.header.version = 2 =>
               U32(Len(result.calibration_samples)) = result.header.calibration_count
        /\ result.header.version = 1 => result.calibration_samples = <<>>

C1_Witness ==
    /\ Returned
    /\ result.header.version = 2
    /\ Len(result.imu_samples) = 2
    /\ Len(result.gps_samples) = 1
    /\ Len(result.calibration_samples) = 2

\* a decoded record against the one written
SameImu(r, o) ==
    /\ r.timestamp = o.timestamp
    /\ Near32(r.ax, o.ax) /\ Near32(r.ay, o.ay) /\ Near32(r.az, o.az)
    /\ Near32(r.gx, o.gx) /\ Near32(r.gy, o.gy) /\ Near32(r.gz, o.gz)
SameGps(r, o) ==
    /\ r.timestamp = o.timestamp
    /\ r.lat = o.lat
    /\ r.lon = o.lon
    /\ Near32(r.speed, o.speed)
    /\ Near32(r.heading, o.heading)
    /\ Near32(r.accuracy, o.accuracy)

(* C2: a file written by write_binary_test_file and decoded by read()      *)
(* gives back the header of the writer (tag, both counts, session start,   *)
(* orientation 'rower', demo mode, both thresholds) and, in the order      *)
(* written, every field of every record: f64 fields and integers exactly,  *)
(* f32 fields within one unit in the last place.                           *)
C2_RoundTrip ==
    (program = "test_binary_format" /\ Returned) =>
        LET h == result.header
        IN  /\ h.magic = MAGIC_V1
            /\ h.version = 1
            /\ h.imu_count = U32(Len(original.imu_samples))
            /\ h.gps_count = U32(Len(original.gps_samples))
            /\ h.session_start = SessionStartLiteral
            /\ h.phone_orientation = "rower"
            /\ h.demo_mode = TRUE
            /\ Near32(h.catch_threshold, CatchLiteral)
            /\ Near32(h.finish_threshold, FinishLiteral)
            /\ Len(result.imu_samples) = Len(original.imu_samples)
            /\ Len(result.gps_samples) = Len(original.gps_samples)
            /\ \A k \in 1..Len(original.imu_samples) :
                   SameImu(result.imu_samples[k], original.imu_samples[k])
            /\ \A k \in 1..Len(original.gps_samples) :
                   SameGps(result.gps_samples[k], original.gps_samples[k])

C2_Witness ==
    /\ program = "test_binary_format"
    /\ Returned
    /\ Len(original.imu_samples) = 2
    /\ Len(original.gps_samples) = 2
    /\ original.imu_samples[1] # original.imu_samples[2]
    /\ result.imu_samples[1].ax # original.imu_samples[1].ax
    /\ result.gps_samples[2].lat # result.gps_samples[2].lon

\* the next step decodes a record that the buffer does not hold whole
RecordDue ==
    \/ pc = "imu" /\ Below(Len(imu_samples), ImuRange(header))
                  /\ Len(data) - offset < 32
    \/ pc = "gps" /\ Below(Len(gps_samples), GpsRange(header))
                  /\ Len(data) - offset < 36
    \/ pc = "calibration_samples"
           /\ Below(Len(calibration_samples), CalibrationRange(version, header))
           /\ Len(data) - offset < 32

(* C3: when a motion, position or calibration-capture record is to be      *)
(* decoded and fewer bytes remain than its stride, read() raises and       *)
(* returns nothing; so a result is returned only if every record it holds  *)
(* lay whole inside the buffer.                                            *)
C3_TruncatedRaises ==
    /\ [][(Reading /\ RecordDue) =>
             (pc' = "raised" /\ error'.type = "struct.error" /\ result' = None)]_vars
    /\ [](Returned =>
             \/ Len(result.imu_samples) + Len(result.gps_samples)
                    + Len(result.calibration_samples) = 0
             \/ Len(data) >= RecordBase + 32 * Len(result.imu_samples)
                               + 36 * Len(result.gps_samples)
                               + 32 * Len(result.calibration_samples))
    /\ [](pc = "raised" => result = None)

\* a V2 file cut inside its second motion record
C3_Witness ==
    /\ Reading
    /\ Raised("struct.error")
    /\ version = 2
    /\ Len(imu_samples) = 1
    /\ offset < Len(data)
    /\ Len(data) < offset + 32
    /\ result = None

(* C4: a file whose first 16 bytes are ASCII and start with WRC_COACH_V2   *)
(* is taken as version 2, one that starts with WRC_COACH_V1 as version 1,  *)
(* whatever follows the prefix.                                            *)
C4_PrefixDetection ==
    (PastDetect /\ IsAscii(Slice(data, 0, 16))) =>
        /\ HasPrefix(MAGIC_V2) => version = 2
        /\ HasPrefix(MAGIC_V1) => version = 1

\* 'WRC_COACH_V2extr'
C4_Witness ==
    /\ Reading
    /\ PastDetect
    /\ magic = MAGIC_V2 \o <<101, 120, 116, 114>>
    /\ version = 2

(* C5 as stated: a file that starts with WRC_COACH_V3 is taken as version  *)
(* 3 by read() and by check_file().                                        *)
C5_Original ==
    (PastDetect /\ IsAscii(Slice(data, 0, 16)) /\ HasPrefix(MAGIC_V3)) => version = 3

(* C5, amended: check_file() takes such a file as version 3; read() knows  *)
(* no version 3 and raises the ValueError of an invalid file format.       *)
C5_V3OnlyInCheckFile ==
    (PastDetect /\ IsAscii(Slice(data, 0, 16)) /\ HasPrefix(MAGIC_V3)) =>
        /\ program = "check_file" => version = 3 /\ ~Raised("ValueError")
        /\ Reading => Raised("ValueError") /\ result = None /\ header = None

C5_Witness ==
    /\ program = "check_file"
    /\ pc = "check_samples"
    /\ HasPrefix(MAGIC_V3)
    /\ version = 3

(* C6: when the tag starts with none of the known prefixes, read() raises  *)
(* before it decodes any header field or record, returns nothing, and the  *)
(* message of the error ends with the tag.                                 *)
C6_UnrecognizedFormat ==
    (Reading /\ PastDetect /\ IsAscii(Slice(data, 0, 16))
        /\ ~HasPrefix(MAGIC_V1) /\ ~HasPrefix(MAGIC_V2) /\ ~HasPrefix(MAGIC_V3)) =>
        LET tag == rstrip0(Slice(data, 0, 16))
            msg == error.arg
        IN  /\ Raised("ValueError")
            /\ Len(msg) >= Len(tag)
            /\ SubSeq(msg, Len(msg) - Len(tag) + 1, Len(msg)) = tag
            /\ SubSeq(msg, 1, Len(msg) - Len(tag)) = InvalidFileFormat
            /\ header = None
            /\ imu_samples = <<>> /\ gps_samples = <<>> /\ calibration_samples = <<>>
            /\ result = None

\* 'WRC_COACH_V9'
C6_Witness ==
    /\ Reading
    /\ Raised("ValueError")
    /\ error.arg = InvalidFileFormat \o TagStem \o <<57>>

(* C7 as stated: on a buffer shorter than 16 bytes format detection fails, *)
(* no version is selected and header decoding is never entered.            *)
C7_Original ==
    (Reading /\ Len(data) < 16 /\ pc # "read") =>
        /\ version = 0
        /\ pc = "raised"
        /\ error.type # "struct.error"

(* C7, amended: on a buffer shorter than 16 bytes read() never gets past   *)
(* the header decoder and returns nothing; detection fails only when the   *)
(* bytes present are not ASCII or start with no known tag, and when they   *)
(* spell one the version is selected and the header decoder raises         *)
(* struct.error.                                                           *)
C7_ShortBuffer ==
    (Reading /\ Len(data) < 16) =>
        /\ pc \in {"read", "header", "raised"}
        /\ result = None
        /\ header = None
        /\ (IsAscii(data) /\ HasPrefix(MAGIC_V1) /\ pc # "read") =>
               version = 1 /\ (pc = "raised" => error.type = "struct.error")
        /\ (IsAscii(data) /\ HasPrefix(MAGIC_V2) /\ pc # "read") =>
               version = 2 /\ (pc = "raised" => error.type = "struct.error")
        /\ pc = "header" => HasPrefix(MAGIC_V1) \/ HasPrefix(MAGIC_V2)
        /\ (~IsAscii(data) /\ pc # "read") => Raised("UnicodeDecodeError")
        /\ (IsAscii(data) /\ ~HasPrefix(MAGIC_V1) /\ ~HasPrefix(MAGIC_V2) /\ pc # "read") =>
               Raised("ValueError")

\* the 12 bytes 'WRC_COACH_V1'
C7_Witness ==
    /\ Reading
    /\ data = MAGIC_V1
    /\ version = 1
    /\ Raised("struct.error")

\* where the offset stands in each region, and what each array element is
C8_Layout ==
    LET B  == RecordBase
        ni == Len(imu_samples)
        ng == Len(gps_samples)
        nc == Len(calibration_samples)
    IN  Reading =>
        /\ pc = "imu" => offset = B + 32 * ni /\ ng = 0 /\ nc = 0
        /\ pc = "gps" => offset = B + 32 * ni + 36 * ng /\ nc = 0
        /\ pc = "calibration_samples" => offset = B + 32 * ni + 36 * ng + 32 * nc
        /\ (ng > 0 \/ pc \in {"gps", "calibration_samples", "returned"}) =>
               U32(ni) = header.imu_count
        /\ (nc > 0 \/ pc \in {"calibration_samples", "returned"}) =>
               U32(ng) = header.gps_count
        /\ nc > 0 => version = 2
        /\ \A k \in 1..ni :
               /\ imu_samples[k] = read_imu_sample(data, B + 32 * (k - 1))
               /\ pack_d(imu_samples[k].timestamp)
                      = Bytes(B + 32 * (k - 1), B + 32 * (k - 1) + 8)
        /\ \A k \in 1..ng :
               /\ gps_samples[k] = read_gps_sample(data, B + 32 * ni + 36 * (k - 1))
               /\ pack_d(gps_samples[k].timestamp)
                      = Bytes(B + 32 * ni + 36 * (k - 1), B + 32 * ni + 36 * (k - 1) + 8)
        /\ \A k \in 1..nc :
               /\ calibration_samples[k]
                      = read_imu_sample(data, B + 32 * ni + 36 * ng + 32 * (k - 1))
               /\ pack_d(calibration_samples[k].timestamp)
                      = Bytes(B + 32 * ni + 36 * ng + 32 * (k - 1),
                              B + 32 * ni + 36 * ng + 32 * (k - 1) + 8)

(* C8: read() decodes the motion records, then the position records, then  *)
(* (V2) the calibration-capture records, from one offset that never        *)
(* decreases: record k of a region lies at the start of the region plus k  *)
(* strides, the regions follow each other, and element k of an array is    *)
(* the record at position k of its region.                                 *)
C8_RecordOrder == [](C8_Layout) /\ [][Reading => offset' >= offset]_vars

\* all three arrays filled, the motion timestamps decreasing
C8_Witness ==
    /\ Returned
    /\ Len(imu_samples) = 2
    /\ Len(gps_samples) = 2
    /\ Len(calibration_samples) = 2
    /\ FloatLess(imu_samples[2].timestamp, imu_samples[1].timestamp)
    /\ result.imu_samples = imu_samples

\* the state once read() is past the calibration block
C9_State ==
    (Reading /\ pc \in {"imu", "gps", "calibration_samples", "returned"}) =>
        LET decoded == header.calibration # None
            first   == IF decoded THEN 192 ELSE IF version = 2 THEN 128 ELSE 64
        IN  /\ decoded <=> (version = 2 /\ ByteAt(data, 28) = 1)
            /\ decoded <=> (version = 2 /\ header.has_calibration)
            /\ decoded =>
                   /\ header.calibration = read_calibration(data, 128)
                   /\ pack_d(header.calibration.timestamp) = Bytes(156, 164)
            /\ (pc = "imu" /\ imu_samples = <<>>) => offset = first
            /\ imu_samples # <<>> =>
                   pack_d(imu_samples[1].timestamp) = Bytes(first, first + 8)

(* C9: read() decodes the calibration block exactly when the version is 2  *)
(* and the has_calibration byte is 1; then header.calibration holds the    *)
(* block, whatever its content, and the first motion record lies at byte   *)
(* 192; otherwise header.calibration stays None and the first motion       *)
(* record lies at byte 128 (V2) or 64 (V1).                                *)
C9_CalibrationBlock ==
    /\ [](C9_State)
    /\ [][(Reading /\ pc = "calibration" /\ version = 2 /\ ByteAt(data, 28) = 1
              /\ Len(data) >= 192) =>
             (pc' = "imu" /\ header'.calibration # None /\ offset' = offset + 64)]_vars
    /\ [][(Reading /\ pc = "calibration" /\ ~(version = 2 /\ ByteAt(data, 28) = 1)) =>
             (pc' = "imu" /\ header' = header /\ offset' = offset)]_vars

\* a block of NaNs and a sample count of 4294967295 is decoded as it is
C9_Witness ==
    /\ Returned
    /\ header.calibration # None
    /\ isnan(header.calibration.variance)
    /\ header.calibration.samples = [hi |-> 65535, lo |-> 65535]
    /\ Len(imu_samples) = 2

(* C10: for a V1 buffer the header has calibration_count 0,                *)
(* has_calibration false and calibration None, and no calibration sample   *)
(* is decoded, whatever bytes follow the two counts; session_start is the  *)
(* f64 at byte 24 for V1 and at byte 29 for V2.                            *)
C10_V1Header ==
    (Reading /\ header # None) =>
        /\ version = 1 =>
               /\ header.calibration_count = U32(0)
               /\ header.has_calibration = FALSE
               /\ header.calibration = None
               /\ calibration_samples = <<>>
               /\ result # None => result.calibration_samples = <<>>
               /\ pack_d(header.session_start) = Bytes(24, 32)
        /\ version = 2 => pack_d(header.session_start) = Bytes(29, 37)

\* a V1 tag in front of what a V2 writer would have put: the bytes where
\* V2 keeps the calibration count and flag are set
C10_Witness ==
    /\ Returned
    /\ version = 1
    /\ unpack_I(data, 24) = U32(MaxCount)
    /\ ByteAt(data, 28) = 1
    /\ Len(result.imu_samples) = MaxCount

(* C11: whenever read() returns, the buffer is exactly as long as the      *)
(* header, the calibration block when present and the declared records     *)
(* take: the final offset is the length of the buffer, no byte follows the *)
(* last record.                                                            *)
C11_Original ==
    Returned =>
        /\ offset = Len(data)
        /\ Len(data) = RecordBase + 32 * Len(result.imu_samples)
                                  + 36 * Len(result.gps_samples)
                                  + 32 * Len(result.calibration_samples)

\* the offset of the first motion record of a V3 file
V3RecordBase == HEADER_SIZE_V2 + (IF ByteAt(data, 28) = 1 THEN CALIBRATION_SIZE ELSE 0)

\* motion record k of a V3 file has a number in an orientation channel
RecordHasOrientation(k) ==
    \E c \in {32, 36, 40} :
        ~isnan(unpack_f(data, V3RecordBase + IMU_SAMPLE_SIZE_V3 * k + c))

(* C19: when check_file() has walked the motion records of a V3 file,      *)
(* samples_with_orientation is the number of walked records with a number  *)
(* in at least one orientation channel; a record whose three channels are  *)
(* NaN is decoded and not counted.                                         *)
C19_Original ==
    (/\ program = "check_file" /\ version = 3 /\ checked # None
     /\ Len(data) >= V3RecordBase + IMU_SAMPLE_SIZE_V3 * checked.samples_checked) =>
        /\ pc # "raised"
        /\ pc = "returned" =>
               checked.samples_with_orientation =
                   Cardinality({k \in 0..(checked.samples_checked - 1) :
                                    RecordHasOrientation(k)})

(* C20: what read() returns for a V1 file has exactly three components:    *)
(* header, IMU samples, GPS samples.                                       *)
C20_Original ==
    (Returned /\ version = 1) => Len(AsTuple(result)) = 3

----------------------------------------------------------------------------
(* Vocabulary of the properties of the stroke analysis *)

\* calculate_stroke_metrics has returned
MetricsReturned == program = "visualize_wrcdata" /\ pc = "returned"

\* catches[i], finishes[i] with i counted from 0 as in the code
CatchAt(i) == catches[i + 1]
FinishAt(i) == finishes[i + 1]

\* index i has a finish and a next catch, in the order catch, finish, next
\* catch
Ordered(i) ==
    /\ i + 1 < Len(catches)
    /\ i < Len(finishes)
    /\ CatchAt(i) < FinishAt(i)
    /\ FinishAt(i) < CatchAt(i + 1)

\* index i has a finish after its catch and a later next catch
Paired(i) ==
    /\ i + 1 < Len(catches)
    /\ i < Len(finishes)
    /\ CatchAt(i) < FinishAt(i)
    /\ CatchAt(i) < CatchAt(i + 1)

\* where the ratio of index i stands in drive_ratios
Rank(i) == Cardinality({j \in 0..(i - 1) : Paired(j)}) + 1

BigLeq(a, b) == ~BigLess(b, a)
BigDist(a, b) == IF BigLess(a, b) THEN BigSub(b, a) ELSE BigSub(a, b)

\* a finite float x with 0 <= x < 2^52 is Mantissa(x) / 2^Scale(x)
Mantissa(a) == IF IsZero(a) THEN <<>> ELSE Significand(a)
Scale(a) == IF IsZero(a) THEN 0 ELSE 1075 - a.e
InRange(a) == a.s = 0 /\ (IsZero(a) \/ (a.e > 0 /\ a.e < 1075))

\* the float x is the quotient p / q of two naturals to within a relative
\* error of 2^-48 (some ten roundings)
NearQuotient(a, p, q) ==
    /\ InRange(a)
    /\ LET target == BigShl(p, Scale(a))
       IN  BigLeq(BigShl(BigDist(BigMul(Mantissa(a), q), target), 48), target)

\* the intervals between the catches, their product, and for interval i
\* the quotient 60 * fs * (the product) / (interval i): the rate of
\* interval i is RateOver(i) / Intervals product
Interval(i) == catches[i + 1] - catches[i]
Increasing == \A i \in 1..(Len(catches) - 1) : Interval(i) > 0
RECURSIVE ProductExcept(_, _)
ProductExcept(n, skip) ==
    IF n = 0 THEN <<1>>
    ELSE IF n = skip THEN ProductExcept(n - 1, skip)
    ELSE BigMul(ProductExcept(n - 1, skip), BigOfInt(Interval(n)))
RateOver(i) ==
    BigMul(BigOfInt(60 * analyzer.fs), ProductExcept(Len(catches) - 1, i))
RECURSIVE SumRateOver(_)
SumRateOver(n) == IF n = 0 THEN <<>> ELSE BigAdd(SumRateOver(n - 1), RateOver(n))
RECURSIVE SumSquareRateOver(_)
SumSquareRateOver(n) ==
    IF n = 0 THEN <<>>
    ELSE BigAdd(SumSquareRateOver(n - 1), BigMul(RateOver(n), RateOver(n)))

\* the float s is the standard deviation of the rates: s^2 is their
\* variance to within 2^-40 of the square of their mean
NearDeviation(s) ==
    LET n   == Len(catches) - 1
        nD  == BigMul(BigOfInt(n), ProductExcept(n, 0))
        sum == SumRateOver(n)
        var == BigSub(BigMul(BigOfInt(n), SumSquareRateOver(n)), BigMul(sum, sum))
        k   == 2 * Scale(s)
        lhs == BigMul(BigMul(Mantissa(s), Mantissa(s)), BigMul(nD, nD))
    IN  /\ InRange(s)
        /\ BigLeq(BigShl(BigDist(lhs, BigShl(var, k)), 40), BigShl(BigMul(sum, sum), k))

----------------------------------------------------------------------------

(* C12: with at least 2 catches calculate_stroke_metrics computes one      *)
(* stroke rate per interval between catches, the rate of an interval of d  *)
(* samples being 60 / (d / fs) = 60 * fs / d (to the rounding of the float *)
(* operations; infinite for d = 0), and reports the mean and the standard  *)
(* deviation of these rates; catches 0, 50, 100, 150 at 50 Hz give the     *)
(* rates 60.0, 60.0, 60.0, mean 60.0 and standard deviation 0.0 exactly.   *)
C12_StrokeRates ==
    (MetricsReturned /\ Len(catches) >= 2) =>
        /\ metrics # None
        /\ Len(stroke_rates) = Len(catches) - 1
        /\ \A i \in 1..(Len(catches) - 1) :
               /\ Interval(i) > 0 =>
                      NearQuotient(stroke_rates[i], BigOfInt(60 * analyzer.fs),
                                   BigOfInt(Interval(i)))
               /\ Interval(i) < 0 =>
                      NearQuotient(neg(stroke_rates[i]), BigOfInt(60 * analyzer.fs),
                                   BigOfInt(0 - Interval(i)))
               /\ Interval(i) = 0 => stroke_rates[i] = Inf64(0)
        /\ Increasing =>
               /\ NearQuotient(metrics.stroke_rate_mean,
                               SumRateOver(Len(catches) - 1),
                               BigMul(BigOfInt(Len(catches) - 1),
                                      ProductExcept(Len(catches) - 1, 0)))
               /\ NearDeviation(metrics.stroke_rate_std)
        /\ (catches = <<0, 50, 100, 150>> /\ analyzer.fs = 50) =>
               /\ stroke_rates = <<float(60), float(60), float(60)>>
               /\ metrics.stroke_rate_mean = float(60)
               /\ metrics.stroke_rate_std = Zero64(0)

\* unequal intervals at 30 Hz: the rates 36.0 and 18.0, mean 27.0, standard
\* deviation 9.0
C12_Witness ==
    /\ MetricsReturned
    /\ catches = <<0, 50, 150>>
    /\ analyzer.fs = 30
    /\ Len(stroke_rates) = 2
    /\ stroke_rates[1] # stroke_rates[2]
    /\ FloatLess(Zero64(0), metrics.stroke_rate_std)

(* C13 as stated: a drive ratio is computed for exactly the indices i with *)
(* catches[i] < finishes[i] < catches[i+1], and every drive ratio is       *)
(* strictly between 0 and 100 percent.                                     *)
C13_Original ==
    (MetricsReturned /\ metrics # None) =>
        /\ Len(drive_ratios) =
               Cardinality({i \in 0..(Len(catches) - 1) : Ordered(i)})
        /\ \A k \in 1..Len(drive_ratios) :
               /\ FloatLess(Zero64(0), drive_ratios[k])
               /\ FloatLess(drive_ratios[k], float(100))

(* C14: for an index i with catches[i] < finishes[i] < catches[i+1] the    *)
(* drive ratio computed is 100 * (finishes[i] - catches[i]) /              *)
(* (catches[i+1] - catches[i]) at every sample rate, to the rounding of    *)
(* the float operations; catch 0, finish 20, next catch 50 give 40.0       *)
(* exactly at 50 Hz and at 30 Hz.                                          *)
C14_DriveRatio ==
    (MetricsReturned /\ metrics # None) =>
        \A i \in 0..(Len(catches) - 1) :
            Ordered(i) =>
                /\ Rank(i) <= Len(drive_ratios)
                /\ NearQuotient(drive_ratios[Rank(i)],
                                BigOfInt(100 * (FinishAt(i) - CatchAt(i))),
                                BigOfInt(CatchAt(i + 1) - CatchAt(i)))
                /\ (CatchAt(i) = 0 /\ FinishAt(i) = 20 /\ CatchAt(i + 1) = 50) =>
                       drive_ratios[Rank(i)] = float(40)

\* two strokes at 30 Hz, the second with a drive of 20 samples in 100
C14_Witness ==
    /\ MetricsReturned
    /\ analyzer.fs = 30
    /\ catches = <<0, 50, 150>>
    /\ finishes = <<20, 70>>
    /\ drive_ratios = <<float(40), float(20)>>
    /\ metrics.drive_ratio_mean = float(30)

(* C15: with no catch or one catch calculate_stroke_metrics returns None,  *)
(* whatever the finishes, and computes neither rates nor ratios.           *)
C15_InsufficientData ==
    (MetricsReturned /\ Len(catches) < 2) =>
        /\ metrics = None
        /\ stroke_rates = None
        /\ drive_ratios = None
        /\ error = None

C15_Witness ==
    /\ MetricsReturned
    /\ Len(catches) = 1
    /\ Len(finishes) = 2
    /\ catches[1] < finishes[1]
    /\ metrics = None

(* C16 as stated: with at least 2 catches the result has stroke_count =    *)
(* len(catches) and the mean and standard deviation of the stroke rate;    *)
(* drive_ratio_mean and drive_ratio_std are both None exactly when no      *)
(* index has its catch, finish and next catch in this order.               *)
C16_Original ==
    (MetricsReturned /\ Len(catches) >= 2) =>
        /\ metrics # None
        /\ metrics.stroke_count = Len(catches)
        /\ metrics.stroke_rate_mean # None
        /\ metrics.stroke_rate_std # None
        /\ (metrics.drive_ratio_mean = None) <=>
               ~(\E i \in 0..(Len(catches) - 1) : Ordered(i))
        /\ (metrics.drive_ratio_std = None) <=> (metrics.drive_ratio_mean = None)

\* detect_strokes has returned
Detected ==
    /\ program = "visualize_wrcdata"
    /\ pc \in {"calculate_stroke_metrics", "returned"}

\* every sample of the series is the same number
IsFlat(x) == \A i \in DOMAIN x : \A j \in DOMAIN x : FloatEq(x[i], x[j])

(* C18 as stated: on a series of fewer than 2 samples and on a flat        *)
(* constant series detect_strokes returns no catch and no finish and       *)
(* raises no error.                                                        *)
C18_Original ==
    (Detected /\ (Len(acceleration) < 2 \/ IsFlat(acceleration))) =>
        /\ catches = <<>>
        /\ finishes = <<>>
        /\ error = None

----------------------------------------------------------------------------

(* C21 as stated: read() returns nothing for a buffer shorter than a fixed *)
(* section: a V1 buffer of fewer than 64 bytes, a V2 buffer of fewer than  *)
(* 128 bytes, a V2 buffer with has_calibration set of fewer than 128 + 64  *)
(* bytes, also when all record counts are zero.                            *)
C21_Original ==
    Returned =>
        /\ version = 1 => Len(data) >= HEADER_SIZE_V1
        /\ version = 2 => Len(data) >= HEADER_SIZE_V2
        /\ (version = 2 /\ result.header.has_calibration) =>
               Len(data) >= HEADER_SIZE_V2 + CALIBRATION_SIZE

(* C22 as stated: every decoder reads the first motion record at the       *)
(* offset of the version's header size (64 for V1, 128 for V2 and V3) plus *)
(* 64 when the calibration block is present: read() on V1 and V2, and      *)
(* check_file() on the 44-byte motion records of V3.                       *)
C22_Original ==
    /\ (Reading /\ pc = "imu" /\ imu_samples = <<>>) =>
           offset = (IF version = 2 THEN HEADER_SIZE_V2 ELSE HEADER_SIZE_V1)
                    + (IF version = 2 /\ header.has_calibration
                       THEN CALIBRATION_SIZE ELSE 0)
    /\ (program = "check_file" /\ pc = "check_samples" /\ checked.i = 0) =>
           offset = V3RecordBase

\* x is no lower than its neighbours at index p (from 0) and has them both
LocalMaximum(x, p) ==
    /\ p >= 1
    /\ p + 2 <= Len(x)
    /\ FloatLeq(x[p], x[p + 1])
    /\ FloatLeq(x[p + 2], x[p + 1])

\* x is no higher than its neighbours at index p (from 0) and has them both
LocalMinimum(x, p) ==
    /\ p >= 1
    /\ p + 2 <= Len(x)
    /\ FloatLeq(x[p + 1], x[p])
    /\ FloatLeq(x[p + 1], x[p + 2])

\* the indices of s rise, any two of them at least 0.8 * fs apart, all
\* within 0 .. n - 1
Separated(s, fs, n) ==
    /\ \A i \in 1..(Len(s) - 1) : s[i] < s[i + 1]
    /\ \A i \in DOMAIN s : \A j \in DOMAIN s :
           i < j => 10 * (s[j] - s[i]) >= 8 * fs
    /\ \A i \in DOMAIN s : s[i] >= 0 /\ s[i] <= n - 1

(* C23: in every output of detect_strokes the catch indices are strictly   *)
(* increasing and any two catches are at least 0.8 * sample_rate samples   *)
(* apart; the same holds for the finish indices; all indices lie in        *)
(* 0 .. len(acceleration) - 1.                                             *)
C23_Separated ==
    Detected =>
        /\ Separated(catches, analyzer.fs, Len(acceleration))
        /\ Separated(finishes, analyzer.fs, Len(acceleration))

\* two catches and two finishes, after a peak nearer than 4 samples to a
\* higher one was dropped
C23_Witness ==
    /\ Detected
    /\ analyzer.fs = 5
    /\ Len(catches) >= 2
    /\ Len(finishes) >= 2
    /\ \E p \in 0..(Len(filtered) - 1) :
           /\ LocalMaximum(filtered, p)
           /\ FloatLeq(CatchHeight, filtered[p + 1])
           /\ \A i \in DOMAIN catches : catches[i] # p

(* C24: every catch index returned by detect_strokes is a local maximum of *)
(* the filtered signal with a value of at least 0.3, every finish index a  *)
(* local minimum of the filtered signal with a value of at most -0.1.      *)
C24_Extrema ==
    Detected =>
        /\ \A i \in DOMAIN catches :
               /\ LocalMaximum(filtered, catches[i])
               /\ FloatLeq(CatchHeight, filtered[catches[i] + 1])
        /\ \A i \in DOMAIN finishes :
               /\ LocalMinimum(filtered, finishes[i])
               /\ FloatLeq(filtered[finishes[i] + 1], neg(FinishHeight))

\* a catch and a finish were found while a local maximum below 0.3 and a
\* local minimum above -0.1 were left out
C24_Witness ==
    /\ Detected
    /\ catches # <<>>
    /\ finishes # <<>>
    /\ \E p \in 0..(Len(filtered) - 1) :
           LocalMaximum(filtered, p) /\ FloatLess(filtered[p + 1], CatchHeight)
                /\ FloatLess(filtered[p], filtered[p + 1])
                /\ FloatLess(filtered[p + 2], filtered[p + 1])

(* C29: in every output of detect_strokes no sample index is both a catch  *)
(* and a finish.                                                           *)
C29_Disjoint ==
    Detected =>
        \A i \in DOMAIN catches : \A j \in DOMAIN finishes : catches[i] # finishes[j]

C29_Witness ==
    /\ Detected
    /\ \E i \in DOMAIN catches : \E j \in DOMAIN finishes :
           finishes[j] - catches[i] \in {1, -1}

(* C28: calculate_stroke_metrics pairs catches[i] with finishes[i] only:   *)
(* it produces one drive ratio for each index i that has a finish at the   *)
(* same position later than its catch and a later next catch, in index     *)
(* order and computed from catches[i], finishes[i] and catches[i+1]; so    *)
(* there are at most min(len(catches) - 1, len(finishes)) ratios, none for *)
(* the last catch and none for an index at or beyond len(finishes).        *)
C28_Positional ==
    (MetricsReturned /\ metrics # None) =>
        /\ Len(drive_ratios) = Cardinality({i \in 0..(Len(catches) - 1) : Paired(i)})
        /\ Len(drive_ratios) <= Len(catches) - 1
        /\ Len(drive_ratios) <= Len(finishes)
        /\ \A i \in 0..(Len(catches) - 1) :
               Paired(i) =>
                   NearQuotient(drive_ratios[Rank(i)],
                                BigOfInt(100 * (FinishAt(i) - CatchAt(i))),
                                BigOfInt(CatchAt(i + 1) - CatchAt(i)))

\* the last catch has a later finish at its own position and gets no ratio
C28_Witness ==
    /\ MetricsReturned
    /\ metrics # None
    /\ Len(finishes) >= Len(catches)
    /\ catches[Len(catches)] < finishes[Len(catches)]
    /\ Len(drive_ratios) = Len(catches) - 1

\* where the device orientation byte stands in a header of this layout
OrientationOffset(ver) == IF ver >= 2 THEN 37 ELSE 32

\* the bytes every header field of this layout is read from
HeaderBytes(ver) == IF ver >= 2 THEN 47 ELSE 42

(* C27: header flag decoding never fails and depends on the value 1 only:  *)
(* the decoded orientation is 'coxswain' exactly when the orientation byte *)
(* is 1 and 'rower' for every other byte, demo_mode and has_calibration    *)
(* are true exactly when their byte is 1; with a has_calibration byte      *)
(* other than 1 no calibration block is skipped, in read() and in          *)
(* check_file; and the header step raises only when the buffer is shorter  *)
(* than the header fields.                                                 *)
C27_FlagDecoding ==
    /\ (Reading /\ header # None) =>
           /\ header.phone_orientation =
                  (IF data[OrientationOffset(version) + 1] = 1 THEN "coxswain" ELSE "rower")
           /\ header.demo_mode = (data[OrientationOffset(version) + 2] = 1)
           /\ header.has_calibration = (version = 2 /\ data[29] = 1)
    /\ (Reading /\ pc = "imu" /\ imu_samples = <<>> /\ version = 2 /\ data[29] # 1) =>
           /\ offset = HEADER_SIZE_V2
           /\ header.calibration = None
    /\ (Reading /\ Raised("struct.error") /\ header = None) =>
           Len(data) < HeaderBytes(version)
    /\ (program = "check_file" /\ checked # None) =>
           /\ checked.phone_orientation =
                  (IF data[OrientationOffset(version) + 1] = 1 THEN "coxswain" ELSE "rower")
           /\ checked.demo_mode = (data[OrientationOffset(version) + 2] = 1)
           /\ checked.has_calibration =
                  (IF version >= 2 THEN [value |-> data[29] = 1] ELSE None)
    /\ (program = "check_file" /\ pc = "check_samples" /\ checked.i = 0 /\ data[29] # 1) =>
           offset = OrientationOffset(version) + 2
    /\ (program = "check_file" /\ Raised("struct.error") /\ checked = None) =>
           Len(data) < HeaderBytes(version)

\* a V2 header whose three flag bytes are 2 has been decoded and the first
\* motion record is about to be read
C27_Witness ==
    /\ Reading
    /\ pc = "imu"
    /\ version = 2
    /\ data[29] = 2
    /\ data[OrientationOffset(2) + 1] = 2
    /\ data[OrientationOffset(2) + 2] = 2
    /\ header.phone_orientation = "rower"
    /\ ~header.demo_mode
    /\ ~header.has_calibration
    /\ offset = HEADER_SIZE_V2

\* the motion count of the header, when it is below 65536
Declared == data[17] + 256 * data[18]

DeclaredAtMost(k) == data[19] = 0 /\ data[20] = 0 /\ Declared <= k

(* C30: on a V3 buffer check_file looks at min(100, imu_count) records,    *)
(* one 44-byte stride after the other from where its header reading       *)
(* ended: it never goes past that number nor past imu_count, returns only  *)
(* after that many, stops earlier only with struct.error on a buffer that  *)
(* lacks the 44 bytes of the next record, counts no more records with      *)
(* orientation than it has looked at, and computes the estimated total     *)
(* only with samples_checked > 0; with imu_count 0 it returns without      *)
(* error and without an estimate.                                          *)
C30_SampleLoop ==
    (program = "check_file" /\ version = 3 /\ checked # None) =>
        /\ checked.samples_checked =
               (IF DeclaredAtMost(SAMPLES_TO_CHECK) THEN Declared ELSE SAMPLES_TO_CHECK)
        /\ checked.i <= checked.samples_checked
        /\ DeclaredAtMost(SAMPLES_TO_CHECK) => checked.i <= Declared
        /\ checked.samples_with_orientation <= checked.i
        /\ offset = OrientationOffset(3) + 2
                      + (IF data[29] = 1 THEN CALIBRATION_SIZE ELSE 0)
                      + IMU_SAMPLE_SIZE_V3 * checked.i
        /\ pc = "returned" => checked.i = checked.samples_checked /\ error = None
        /\ pc = "raised" =>
               /\ Raised("struct.error")
               /\ checked.i < checked.samples_checked
               /\ Len(data) < offset + IMU_SAMPLE_SIZE_V3
        /\ checked.estimated # None =>
               /\ pc = "returned"
               /\ checked.samples_checked > 0
               /\ checked.estimated.value =
                      (checked.samples_with_orientation * Declared)
                          \div checked.samples_checked
        /\ (DeclaredAtMost(0) /\ pc # "check_samples") =>
               /\ pc = "returned"
               /\ checked.estimated = None

\* check_file has returned from a file of 101 motion records after 100
C30_Witness ==
    /\ program = "check_file"
    /\ version = 3
    /\ pc = "returned"
    /\ Declared = LongCount
    /\ checked.i = SAMPLES_TO_CHECK
    /\ checked.samples_with_orientation > 0
    /\ checked.estimated # None

(* C26: detect_strokes and calculate_stroke_metrics leave their inputs     *)
(* unchanged: over every step of either the acceleration array and the     *)
(* analyzer (its motion and position arrays and its sample rate) keep      *)
(* their values, and over a step of calculate_stroke_metrics so do the     *)
(* catch and finish sequences handed to it.                                *)
C26_InputsUnchanged ==
    [][(program = "visualize_wrcdata"
            /\ pc \in {"detect_strokes", "calculate_stroke_metrics"}) =>
           /\ acceleration' = acceleration
           /\ analyzer' = analyzer
           /\ pc = "calculate_stroke_metrics" =>
                  catches' = catches /\ finishes' = finishes]_vars

\* both operations have run on a series with two catches or more
C26_Witness ==
    /\ MetricsReturned
    /\ metrics # None
    /\ Len(acceleration) > MaxSeries
    /\ Len(catches) >= 2
    /\ finishes # <<>>

\* read_as_dataframes has returned its tables
FramesReturned == program = "read_as_dataframes" /\ pc = "frames"

\* the time of a row counted from the timestamp t0, in seconds
SecondsSince(row, t0) == truediv(sub(row.timestamp, t0), float(1000))

(* C25: in read_as_dataframes, when there is a motion sample, every row of *)
(* the motion, the position and the calibration table has time_s =         *)
(* (timestamp - timestamp of the first motion sample) / 1000, the first    *)
(* motion row has time_s 0; without motion sample the position table is    *)
(* measured from its own first timestamp.                                  *)
C25_Original ==
    FramesReturned =>
        /\ Len(result.imu_samples) > 0 =>
               /\ \A i \in DOMAIN result.imu_samples :
                      frames.imu[i] = SecondsSince(result.imu_samples[i],
                                                   result.imu_samples[1].timestamp)
               /\ \A i \in DOMAIN result.gps_samples :
                      frames.gps[i] = SecondsSince(result.gps_samples[i],
                                                   result.imu_samples[1].timestamp)
               /\ \A i \in DOMAIN result.calibration_samples :
                      frames.cal[i] = SecondsSince(result.calibration_samples[i],
                                                   result.imu_samples[1].timestamp)
               /\ frames.imu[1] = Zero64(0)
        /\ Len(result.imu_samples) = 0 =>
               \A i \in DOMAIN result.gps_samples :
                   frames.gps[i] = SecondsSince(result.gps_samples[i],
                                                result.gps_samples[1].timestamp)

====
